---- MODULE Spec2Model ----
(***************************************************************************)
(* Model of the enhanced scraping pipeline of leadsense                    *)
(* (src/leadsense_app/agents/scraper.py): URL parsing and capping, the     *)
(* concurrent per-URL units, aggregation, metadata fallback and            *)
(* deduplication of run_enhanced_company_scraper_agent; with it the page    *)
(* classifier and the two extractors applied on their own, the API         *)
(* server's handlers on the database (api/server.py, agents/database.py)   *)
(* and POST /leads/discover over run_lead_scraping_agent.                  *)
(*                                                                         *)
(* Python values: a str is a sequence of one-character strings, None is    *)
(* the one-element tuple <<"None">>, a non-string JSON value is <<"Int">>. *)
(* Confidence scores are kept in tenths (0.8 is 8).                        *)
(***************************************************************************)
EXTENDS Integers, Sequences, FiniteSets, TLC

VARIABLES
    urls,               \* what lead_discovery_result.get_concatenated_urls() returns
    results,            \* lead_discovery_result.results
    pc,                 \* position of run_enhanced_company_scraper_agent
    limited_urls,       \* scraper.py:326
    tasks,              \* one entry per process_single_url coroutine given to gather
    all_companies,      \* scraper.py:429
    successful_scrapes, \* scraper.py:430
    failed_scrapes,     \* scraper.py:431
    errors,             \* scraper.py:432
    ret,                \* the ScrapingResult returned, NoResult before the return
    fallback_calls,     \* history: the search results extract_from_search_metadata was called on
    scraped,            \* history: all_companies as the aggregation loop left it
    track,              \* whether the completion order is recorded in this run
    order,              \* history: indexes of the units in the order they settled
    dd_in,              \* dedup harness: the list the dedup step is applied to
    dd_out,             \* dedup harness: the successive outputs
    dd_pc,              \* dedup harness: number of applications done
    cl_in,              \* classifier harness: the markup given to detect_page_type
    cl_out,             \* classifier harness: the label returned, "" before the call
    ex_in,              \* extractor harness: markup, URL and capability answer
    ex_out,             \* extractor harness: what each extractor returned
    db_reqs,            \* API server: the handler coroutine of each request
    db_locks,           \* API server: per DatabaseManager created, the holder of its _connection_lock (0: free)
    db_loop,            \* API server: the coroutine the event loop is running (0: none)
    dl_pc,              \* discover_leads: position of the handler
    dl_iteration,       \* discover_leads: iteration of run_lead_scraping_agent
    dl_expired,         \* discover_leads: 120 s have passed since the request came in
    dl_resp,            \* discover_leads: the response, NoResult before it is sent
    st_leads,           \* database: the rows of the leads table, the row of id i at position i
    st_profiles,        \* database: number of active rows of company_profiles
    st_clock,           \* database: CURRENT_TIMESTAMP, in seconds since the first operation
    st_op,              \* history: the last operation on the leads table, its arguments and what it returned
    st_deleted,         \* history: the ids for which delete_lead returned True
    sc_sectors,         \* database: the rows of the sectors table, the row of id i at position i
    sc_reqs,            \* POST /sectors/identify: the handler coroutine of each request
    sc_loop,            \* POST /sectors/identify: the coroutine the event loop is running (0: none)
    ag_pc,              \* run_lead_scraping_agent: position
    ag_iteration,       \* run_lead_scraping_agent: iteration
    ag_invocations,     \* history: calls of client.chat.completions.create
    ag_calls,           \* run_lead_scraping_agent: response_message.tool_calls of the last response
    ag_next,            \* run_lead_scraping_agent: index of the tool call the for loop is at
    ag_replies,         \* history: tool_call_id of the tool messages appended since the last response
    ag_ret              \* run_lead_scraping_agent: what it returned, NoResult before

vars == <<urls, results, pc, limited_urls, tasks, all_companies,
          successful_scrapes, failed_scrapes, errors, ret, fallback_calls,
          scraped, track, order, dd_in, dd_out, dd_pc,
          cl_in, cl_out, ex_in, ex_out, db_reqs, db_locks, db_loop,
          dl_pc, dl_iteration, dl_expired, dl_resp,
          st_leads, st_profiles, st_clock, st_op, st_deleted,
          sc_sectors, sc_reqs, sc_loop,
          ag_pc, ag_iteration, ag_invocations, ag_calls, ag_next, ag_replies, ag_ret>>

scraperVars == <<urls, results, pc, limited_urls, tasks, all_companies,
                 successful_scrapes, failed_scrapes, errors, ret,
                 fallback_calls, scraped, track, order>>

ddVars == <<dd_in, dd_out, dd_pc>>

clVars == <<cl_in, cl_out>>

exVars == <<ex_in, ex_out>>

dbVars == <<db_reqs, db_locks, db_loop>>

dlVars == <<dl_pc, dl_iteration, dl_expired, dl_resp>>

stVars == <<st_leads, st_profiles, st_clock, st_op, st_deleted>>

scVars == <<sc_sectors, sc_reqs, sc_loop>>

agVars == <<ag_pc, ag_iteration, ag_invocations, ag_calls, ag_next, ag_replies, ag_ret>>

\* the variables of the database and of the agent loop
appVars == <<stVars, scVars, agVars>>

\* the variables of the harnesses, which the pipeline never touches
harnessVars == <<ddVars, clVars, exVars, dbVars, dlVars, appVars>>

---------------------------------------------------------------------------
(* Bounds of the model *)

MaxUrls == 6            \* most URLs in an input
MaxOrderUrls == 3       \* most URLs in a run that records the completion order
MaxDedupLen == 3        \* longest list given to the dedup harness
MaxScore == 3           \* most directory patterns found in a markup of the classifier harness
MaxMentions == 12       \* most organization-noun mentions in such a markup
MaxContacts == 7        \* most contact tokens in such a markup
MaxEntries == 3         \* longest array the capability answers in the extractor harness
MaxRequests == 3        \* most API requests in flight
MaxLeads == 2           \* most leads in the final answer of the lead scraping agent
MaxRows == 2            \* most rows of the leads table
MaxTicks == 1           \* seconds that pass while the table is worked on
MaxSectors == 2         \* most sectors the sector agent recommends in one answer
MaxToolCalls == 2       \* most tool calls in one response of the model

(* Program constants *)

MinHtmlLen == 100       \* len(html_content.strip()) < 100
ConfSingle == 8         \* confidence_score=0.8
ConfAggregator == 6     \* confidence_score=0.6
ConfMetadata == 3       \* confidence_score=0.3
ConfDegenerate == 1     \* confidence_score=0.1
ScoreThreshold == 2     \* aggregator_score >= 2
MentionsThreshold == 10 \* company_mentions > 10
ContactsThreshold == 5  \* contact_sections > 5
max_iterations == 10    \* max_iterations = 10  # Prevent infinite loops

---------------------------------------------------------------------------
(* Python values and string operations *)

UrlCap == 5             \* limited_urls = url_list[:5]
FallbackCap == 3        \* lead_discovery_result.results[:3]
AggregatorCap == 10     \* "Extract up to 10 companies maximum" in the aggregator prompt

None == <<"None">>
NonStr == <<"Int">>
IsStr(v) == v # None /\ v # NonStr
Truthy(v) == v # None /\ v # <<>>

Min(a, b) == IF a <= b THEN a ELSE b

\* str.lower() on the alphabet of the model
LowerChar(c) ==
    CASE c = "A" -> "a"
      [] c = "B" -> "b"
      [] c = "C" -> "c"
      [] c = "U" -> "u"
      [] OTHER -> c

Lower(s) == [i \in 1..Len(s) |-> LowerChar(s[i])]

RECURSIVE LStrip(_)
LStrip(s) == IF s # <<>> /\ Head(s) = " " THEN LStrip(Tail(s)) ELSE s

RECURSIVE RStrip(_)
RStrip(s) ==
    IF s # <<>> /\ s[Len(s)] = " " THEN RStrip(SubSeq(s, 1, Len(s) - 1)) ELSE s

\* str.strip()
Strip(s) == RStrip(LStrip(s))

\* str.split(sep): the segments between the separators, empty ones included
RECURSIVE SplitAcc(_, _, _, _)
SplitAcc(s, sep, cur, acc) ==
    IF s = <<>> THEN Append(acc, cur)
    ELSE IF Head(s) = sep THEN SplitAcc(Tail(s), sep, <<>>, Append(acc, cur))
    ELSE SplitAcc(Tail(s), sep, Append(cur, Head(s)), acc)

Split(s, sep) == SplitAcc(s, sep, <<>>, <<>>)

\* sep.join(parts)
RECURSIVE Join(_, _)
Join(parts, sep) ==
    IF parts = <<>> THEN <<>>
    ELSE IF Len(parts) = 1 THEN parts[1]
    ELSE parts[1] \o sep \o Join(Tail(parts), sep)

RECURSIVE SelectNonEmptyStripped(_)
SelectNonEmptyStripped(segs) ==
    IF segs = <<>> THEN <<>>
    ELSE IF Strip(Head(segs)) # <<>>
         THEN <<Strip(Head(segs))>> \o SelectNonEmptyStripped(Tail(segs))
         ELSE SelectNonEmptyStripped(Tail(segs))

\* ParseUrlList without the "if url.strip()" filter
ParseUrlListNoFilter(s) == [i \in 1..Len(Split(s, ",")) |-> Strip(Split(s, ",")[i])]

\* url_list = [url.strip() for url in urls.split(',') if url.strip()]
ParseUrlList(s) == SelectNonEmptyStripped(Split(s, ","))

\* seq[:n]
Prefix(seq, n) == SubSeq(seq, 1, Min(Len(seq), n))

\* LimitUrls without the slice
LimitUrlsNoCap(url_list) == url_list

\* limited_urls = url_list[:5]
LimitUrls(url_list) == Prefix(url_list, UrlCap)

---------------------------------------------------------------------------
(* Inputs: the search results and the URL string derived from them *)

UrlChars == <<"1", "2", "3", "4", "5", "6", "7", "8">>

\* str(item.URL) of the i-th distinct URL
UrlStr(i) == <<UrlChars[i]>>

Missing == <<"Missing">>    \* an attribute the object does not have

NameAb == <<"A", "b">>
Nameab == <<"a", "b">>
NameC == <<"C">>

\* SearchResultItem(Title, URL, Description, Order)
SearchResultItem(title, url) == [Title |-> title, URL |-> url]

\* LeadDiscoveryResults.get_concatenated_urls
get_concatenated_urls(res) ==
    Join([i \in 1..Len(res) |-> res[i].URL], <<",", " ">>)

LeadDiscoveryResults(res) == [urls |-> get_concatenated_urls(res), results |-> res]

\* n results with distinct URLs and the given titles
ResultsOf(titles) == [i \in 1..Len(titles) |-> SearchResultItem(titles[i], UrlStr(i))]

SeqsUpTo(S, n) == UNION {[1..k -> S] : k \in 0..n}

Titles == {NameAb, Nameab, <<>>}

\* inputs built by the repository's own LeadDiscoveryResults
GenuineInputs ==
    {LeadDiscoveryResults(ResultsOf(t)) : t \in SeqsUpTo(Titles, 2)}
    \cup {LeadDiscoveryResults(ResultsOf([i \in 1..n |-> NameAb])) : n \in 3..MaxUrls}
    \cup {LeadDiscoveryResults(<<SearchResultItem(NameAb, UrlStr(1)),
                                 SearchResultItem(Nameab, UrlStr(1))>>),
          LeadDiscoveryResults(<<SearchResultItem(<<>>, UrlStr(3)),
                                 SearchResultItem(NameAb, UrlStr(3)),
                                 SearchResultItem(Nameab, UrlStr(4)),
                                 SearchResultItem(NameC, UrlStr(5))>>)}

\* URL strings no LeadDiscoveryResults produces: blank, commas only, padded
BlankUrlStrings ==
    {<<>>, <<" ">>, <<" ", " ">>, <<",">>, <<" ", ",", " ", ",">>, None}

PaddedUrlStrings ==
    {<<"1", ",", ",", " ", "2", " ", ",">>,
     <<" ", "3", ",", "1", ",", "2">>}

\* objects that only look like a LeadDiscoveryResults (test doubles)
StubInputs ==
    {[urls |-> s, results |-> r] :
        s \in BlankUrlStrings \cup PaddedUrlStrings \cup {NonStr},
        r \in {<<>>, ResultsOf(<<NameAb>>)}}
    \cup {[urls |-> get_concatenated_urls(ResultsOf([i \in 1..3 |-> NameAb])),
           results |-> <<>>]}
    \cup {[urls |-> UrlStr(3) \o <<",", " ">> \o UrlStr(4), results |-> r] :
            r \in {<<SearchResultItem(NonStr, UrlStr(3)),
                     SearchResultItem(NameAb, UrlStr(4))>>,
                   <<SearchResultItem(NameAb, Missing),
                     SearchResultItem(NonStr, Missing),
                     SearchResultItem(Nameab, UrlStr(4))>>}}

Inputs == GenuineInputs \cup StubInputs

---------------------------------------------------------------------------
(* Records of the program *)

CompanyData(name, website, source, confidence) ==
    [company_name |-> name, website_url |-> website,
     source_url |-> source, confidence_score |-> confidence]

ScrapingResult(companies, total, ok, failed, errs) ==
    [companies |-> companies, total_urls_processed |-> total,
     successful_scrapes |-> ok, failed_scrapes |-> failed, errors |-> errs]

NoResult == [none |-> TRUE]
NoPage == [none |-> TRUE]

\* f-string messages: the fixed text and the value formatted into it
Msg(text, arg) == <<text, arg>>

---------------------------------------------------------------------------
(* Page type detection *)

\* Fetched content: whether it is a str, its stripped length, and the three
\* counts detect_page_type takes from it (patterns found, organization-noun
\* mentions, contact tokens).
Page(isstr, size, score, mentions, contacts) ==
    [is_str |-> isstr, size |-> size, aggregator_score |-> score,
     company_mentions |-> mentions, contact_sections |-> contacts]

\* detect_page_type taking 10 mentions for more than 10
detect_page_type_mentions_from(html) ==
    IF ~html.is_str THEN "single_company"
    ELSE IF \/ html.aggregator_score >= ScoreThreshold
            \/ html.company_mentions >= MentionsThreshold
            \/ html.contact_sections > ContactsThreshold
         THEN "aggregator"
         ELSE "single_company"

\* detect_page_type taking 5 contact tokens for more than 5
detect_page_type_contacts_from(html) ==
    IF ~html.is_str THEN "single_company"
    ELSE IF \/ html.aggregator_score >= ScoreThreshold
            \/ html.company_mentions > MentionsThreshold
            \/ html.contact_sections >= ContactsThreshold
         THEN "aggregator"
         ELSE "single_company"

detect_page_type(html) ==
    IF ~html.is_str THEN "single_company"   \* html_content.lower() raises, caught
    ELSE IF \/ html.aggregator_score >= ScoreThreshold
            \/ html.company_mentions > MentionsThreshold
            \/ html.contact_sections > ContactsThreshold
         THEN "aggregator"
         ELSE "single_company"

---------------------------------------------------------------------------
(* Structured extraction *)

UnknownCompany == <<"U", "n", "k", "n", "o", "w", "n">>

\* one element of the array the extraction capability answers with
Entry(name, website) == [kind |-> "dict", company_name |-> name, website_url |-> website]
NotADict == [kind |-> "other"]

\* dict.get(key, default)
Get(v, default) == IF v = Missing THEN default ELSE v

\* result.final_output: its textual form and the entries it holds
FinalOutput(form, items) == [form |-> form, items |-> items]

\* helper.extract_json_string: the text between code fences if there are
\* fences, the text itself otherwise
extract_json_string(out) ==
    IF out.form \in {"fenced", "fenced_commentary"}
    THEN FinalOutput("array", out.items)
    ELSE out

\* json.loads(result.final_output): only bare JSON text parses
JsonParses(out) == out.form \in {"array", "object"}

\* the pydantic validation of CompanyData(company_name: str, website_url: Optional[str])
ValidCompany(name, website) == IsStr(name) /\ website # NonStr

\* scraper.py:152-165; a validation error leaves the loop with what was built
RECURSIVE BuildSingle(_, _)
BuildSingle(items, url) ==
    IF items = <<>> THEN <<>>
    ELSE LET e == Head(items) IN
         IF e.kind # "dict" THEN BuildSingle(Tail(items), url)
         ELSE LET name == Get(e.company_name, UnknownCompany)
                  website == Get(e.website_url, None)
              IN IF ~ValidCompany(name, website) THEN <<>>
                 ELSE <<CompanyData(name, website, url, ConfSingle)>>
                      \o BuildSingle(Tail(items), url)

\* BuildAggregator leaving the loop at the first entry it does not take
RECURSIVE BuildAggregatorStopAtSkipped(_, _)
BuildAggregatorStopAtSkipped(items, url) ==
    IF items = <<>> THEN <<>>
    ELSE LET e == Head(items) IN
         IF e.kind # "dict" \/ ~Truthy(Get(e.company_name, None))
         THEN <<>>
         ELSE LET name == e.company_name
                  website == Get(e.website_url, None)
              IN IF ~ValidCompany(name, website) THEN <<>>
                 ELSE <<CompanyData(name, website, url, ConfAggregator)>>
                      \o BuildAggregatorStopAtSkipped(Tail(items), url)

\* scraper.py:239-252
RECURSIVE BuildAggregator(_, _)
BuildAggregator(items, url) ==
    IF items = <<>> THEN <<>>
    ELSE LET e == Head(items) IN
         IF e.kind # "dict" \/ ~Truthy(Get(e.company_name, None))
         THEN BuildAggregator(Tail(items), url)
         ELSE LET name == e.company_name
                  website == Get(e.website_url, None)
              IN IF ~ValidCompany(name, website) THEN <<>>
                 ELSE <<CompanyData(name, website, url, ConfAggregator)>>
                      \o BuildAggregator(Tail(items), url)

\* the part both extractors share: content check, capability call, parsing
Extracted(html, cap) ==
    IF ~html.is_str THEN <<>>                   \* .strip() raises, caught at 171/258
    ELSE IF html.size < MinHtmlLen THEN <<>>
    ELSE IF cap.ev # "output" THEN <<>>         \* Runner.run raises, caught at 171/258
    ELSE IF cap.out.form = "empty" THEN <<>>    \* if result.final_output:
    ELSE IF ~JsonParses(cap.out) THEN <<>>      \* json.loads raises, caught at 166/253
    ELSE IF cap.out.form # "array" THEN <<>>    \* isinstance(data, list)
    ELSE cap.out.items

scrape_single_company_page(html, url, cap) == BuildSingle(Extracted(html, cap), url)

scrape_aggregator_page(html, url, cap) == BuildAggregator(Extracted(html, cap), url)

---------------------------------------------------------------------------
(* Metadata fallback *)

Letters == {"a", "b", "c", "d", "n", "k", "o", "w", "u", "A", "B", "C", "D", "U"}

UpperChar(c) ==
    CASE c = "a" -> "A"
      [] c = "b" -> "B"
      [] c = "c" -> "C"
      [] c = "d" -> "D"
      [] OTHER -> c

\* urlparse(url).netloc of the URLs of the model
Netloc(url) ==
    CASE url = UrlStr(1) -> <<"w", "w", "w", ".", "a", "-", "b", ".", "c">>
      [] url = UrlStr(2) -> <<"c", ".", "d">>
      [] url = UrlStr(3) -> <<"w", "w", "w", ".", "a", "B", ".", "c">>
      [] url = UrlStr(4) -> <<"a", "b", ".", "c">>
      [] OTHER -> <<"d", "_", "c", ".", "c">>

\* s.replace('www.', '')
RECURSIVE RemoveWww(_)
RemoveWww(s) ==
    IF s = <<>> THEN <<>>
    ELSE IF Len(s) >= 4 /\ SubSeq(s, 1, 4) = <<"w", "w", "w", ".">>
         THEN RemoveWww(SubSeq(s, 5, Len(s)))
         ELSE <<Head(s)>> \o RemoveWww(Tail(s))

\* s.replace(old, ' ') for a one-character old
ReplaceBySpace(s, old) == [i \in 1..Len(s) |-> IF s[i] = old THEN " " ELSE s[i]]

\* str.title(): a letter after a non-letter is upper-cased, any other lower-cased
TitleCase(s) ==
    [i \in 1..Len(s) |->
        IF i = 1 \/ s[i - 1] \notin Letters THEN UpperChar(s[i]) ELSE LowerChar(s[i])]

\* scraper.py:271-273
NameFromUrl(url) ==
    TitleCase(ReplaceBySpace(ReplaceBySpace(
        Split(RemoveWww(Netloc(url)), ".")[1], "-"), "_"))

\* extract_from_search_metadata: the record it returns, or a raise out of
\* its own except block (str(search_result.URL) on an object without URL)
extract_from_search_metadata(sr) ==
    LET derived == IF ~Truthy(sr.Title) /\ Truthy(sr.URL)
                   THEN NameFromUrl(sr.URL) ELSE sr.Title
        company_name == IF ~Truthy(derived) THEN UnknownCompany ELSE derived
        tryRaises == \/ sr.Title = Missing
                     \/ sr.URL = Missing
                     \/ ~ValidCompany(company_name, sr.URL)
    IN IF ~tryRaises
       THEN [raised |-> FALSE,
             company |-> CompanyData(company_name, sr.URL, sr.URL, ConfMetadata)]
       ELSE IF sr.URL = Missing
            THEN [raised |-> TRUE]
            ELSE [raised |-> FALSE,
                  company |-> CompanyData(UnknownCompany, sr.URL, sr.URL, ConfDegenerate)]

\* scraper.py:463-468: the records appended for the search results given
RECURSIVE FallbackCompanies(_)
FallbackCompanies(res) ==
    IF res = <<>> THEN <<>>
    ELSE LET r == extract_from_search_metadata(Head(res)) IN
         (IF r.raised THEN <<>> ELSE <<r.company>>) \o FallbackCompanies(Tail(res))

\* FallbackInputs without the [:3] slice
FallbackInputsAll(res) == res

\* the search results the fallback is applied to
FallbackInputs(res) == Prefix(res, FallbackCap)

---------------------------------------------------------------------------
(* Deduplication *)

\* DedupKey without .lower()
DedupKeyCaseSensitive(company) == <<company.company_name, company.website_url>>

\* key = (company.company_name.lower(), company.website_url)
DedupKey(company) == <<Lower(company.company_name), company.website_url>>

\* scraper.py:471-477
RECURSIVE DedupAcc(_, _, _)
DedupAcc(companies, seen, unique_companies) ==
    IF companies = <<>> THEN unique_companies
    ELSE LET key == DedupKey(Head(companies)) IN
         IF key \notin seen
         THEN DedupAcc(Tail(companies), seen \cup {key},
                       Append(unique_companies, Head(companies)))
         ELSE DedupAcc(Tail(companies), seen, unique_companies)

\* Dedup whose loop starts at the second record
DedupSkipFirst(companies) ==
    IF companies = <<>> THEN <<>> ELSE DedupAcc(Tail(companies), {}, <<>>)

Dedup(companies) == DedupAcc(companies, {}, <<>>)

---------------------------------------------------------------------------
(* The environment: what fetching a URL and the extraction capability do *)

\* the first two sites answer in every way, the others in a few
RichUrls == {UrlStr(1), UrlStr(2)}

PlainPage == Page(TRUE, 500, 0, 3, 1)
DirectoryPage == Page(TRUE, 500, 2, 0, 0)
ShortPage == Page(TRUE, 40, 0, 0, 0)
NonStrPage == Page(FALSE, 500, 0, 0, 0)

PagesOf(url) ==
    IF url \in RichUrls THEN {PlainPage, DirectoryPage, ShortPage, NonStrPage}
    ELSE {PlainPage}

\* what Runner.run(fetch_agent, ...) inside the MCP context does
FetchEvents(url) ==
    {[ev |-> "raise"], [ev |-> "empty"]}
    \cup {[ev |-> "content", html |-> p] : p \in PagesOf(url)}

Website == <<"w">>

OutputsOf(url) ==
    IF url \in RichUrls
    THEN {FinalOutput("invalid", <<>>),
          FinalOutput("array", <<>>),
          FinalOutput("array", <<Entry(NameAb, None)>>),
          FinalOutput("array", <<Entry(Nameab, None)>>),
          FinalOutput("array", <<Entry(<<>>, None)>>),
          FinalOutput("array", <<Entry(NameAb, Website), Entry(Nameab, Website),
                                 Entry(NameC, Missing)>>),
          FinalOutput("array", <<Entry(Missing, None), NotADict, Entry(NameAb, None)>>)}
    ELSE {FinalOutput("array", <<Entry(NameAb, None)>>)}

\* what the extractor's Runner.run does, or a raise that reaches
\* process_single_url (leaving the MCP context fails)
ExtractEvents(url) ==
    {[ev |-> "raise"], [ev |-> "exit_raise"]}
    \cup {[ev |-> "output", out |-> o] : o \in OutputsOf(url)}

---------------------------------------------------------------------------
(* process_single_url *)

Triple(companies, success, error_message) ==
    [kind |-> "triple", companies |-> companies, success |-> success,
     error_message |-> error_message]

Launched == [st |-> "launched", html |-> NoPage, page_type |-> "", result |-> NoResult]

Settled(result) == [st |-> "settled", html |-> NoPage, page_type |-> "", result |-> result]

\* an exception leaving the MCP context block of the unit
Raised == [kind |-> "raise"]

\* a unit that ended by raising: gather keeps the exception as its result
ExceptionResult == [kind |-> "exception"]

\* McpTry letting the exception through
McpTryReraise(block, url) == IF block.kind = "raise" THEN ExceptionResult ELSE block

\* scraper.py:367-413: the try around the MCP context block; what the block
\* raises becomes a failure triple
McpTry(block, url) ==
    IF block.kind = "raise"
    THEN Triple(<<>>, FALSE, Msg("MCP server error for", url))
    ELSE block

\* scraper.py:354-392: up to the call of the extractor
AfterFetch(url, fetch) ==
    IF ~Truthy(url) \/ Strip(url) = <<>>
    THEN Settled(Triple(<<>>, FALSE, Msg("Empty or invalid URL provided", <<>>)))
    ELSE IF fetch.ev = "raise" THEN Settled(McpTry(Raised, Strip(url)))
    ELSE IF fetch.ev = "empty"
    THEN Settled(Triple(<<>>, FALSE, Msg("Failed to fetch content from", Strip(url))))
    ELSE [st |-> "extracting", html |-> fetch.html,
          page_type |-> detect_page_type(fetch.html), result |-> NoResult]

\* AfterExtract choosing the extractor against the label
AfterExtractSwapped(url, task, cap) ==
    LET companies == IF task.page_type = "single_company"
                     THEN scrape_aggregator_page(task.html, url, cap)
                     ELSE scrape_single_company_page(task.html, url, cap)
        block == IF cap.ev = "exit_raise" THEN Raised
                 ELSE IF companies # <<>>
                 THEN Triple(companies, TRUE, <<>>)
                 ELSE Triple(<<>>, FALSE,
                             Msg("No companies extracted from", <<url, task.page_type>>))
    IN McpTry(block, url)

\* scraper.py:394-413: the extractor's answer to the end of the unit
AfterExtract(url, task, cap) ==
    LET companies == IF task.page_type = "single_company"
                     THEN scrape_single_company_page(task.html, url, cap)
                     ELSE scrape_aggregator_page(task.html, url, cap)
        block == IF cap.ev = "exit_raise" THEN Raised
                 ELSE IF companies # <<>>
                 THEN Triple(companies, TRUE, <<>>)
                 ELSE Triple(<<>>, FALSE,
                             Msg("No companies extracted from", <<url, task.page_type>>))
    IN McpTry(block, url)

---------------------------------------------------------------------------
(* gather and the aggregation loop *)

\* gather returning as soon as one unit has failed
GatherDoneFirstFailure(ts) ==
    \/ \A i \in 1..Len(ts) : ts[i].st = "settled"
    \/ \E i \in 1..Len(ts) : ts[i].st = "settled" /\ ~ts[i].result.success

\* asyncio.gather(*tasks, return_exceptions=True) returns when every task is done
GatherDone(ts) == \A i \in 1..Len(ts) : ts[i].st = "settled"

Aggregate(companies, ok, failed, errs) ==
    [all_companies |-> companies, successful_scrapes |-> ok,
     failed_scrapes |-> failed, errors |-> errs]

\* AggregateOne counting a unit that returned no company as successful
AggregateOneEmptyOk(acc, result, url) ==
    IF result.kind = "exception"
    THEN Aggregate(acc.all_companies, acc.successful_scrapes, acc.failed_scrapes + 1,
                   Append(acc.errors, Msg("Exception processing URL", url)))
    ELSE IF result.kind # "triple"
    THEN Aggregate(acc.all_companies, acc.successful_scrapes, acc.failed_scrapes + 1,
                   Append(acc.errors, Msg("Error processing result for URL", url)))
    ELSE IF result.success \/ result.error_message[1] = "No companies extracted from"
    THEN Aggregate(acc.all_companies \o result.companies, acc.successful_scrapes + 1,
                   acc.failed_scrapes, acc.errors)
    ELSE Aggregate(acc.all_companies, acc.successful_scrapes, acc.failed_scrapes + 1,
                   IF result.error_message # <<>>
                   THEN Append(acc.errors, result.error_message) ELSE acc.errors)

\* AggregateOne counting a failed unit without keeping its message
AggregateOneNoMessage(acc, result, url) ==
    IF result.kind = "triple" /\ result.success
    THEN Aggregate(acc.all_companies \o result.companies, acc.successful_scrapes + 1,
                   acc.failed_scrapes, acc.errors)
    ELSE Aggregate(acc.all_companies, acc.successful_scrapes, acc.failed_scrapes + 1,
                   acc.errors)

\* AggregateOne passing over an exception object without counting it
AggregateOneDropException(acc, result, url) ==
    IF result.kind # "triple"
    THEN acc
    ELSE IF result.success
    THEN Aggregate(acc.all_companies \o result.companies, acc.successful_scrapes + 1,
                   acc.failed_scrapes, acc.errors)
    ELSE Aggregate(acc.all_companies, acc.successful_scrapes, acc.failed_scrapes + 1,
                   IF result.error_message # <<>>
                   THEN Append(acc.errors, result.error_message) ELSE acc.errors)

\* one pass of the loop body, scraper.py:435-458
AggregateOne(acc, result, url) ==
    IF result.kind = "exception"
    THEN Aggregate(acc.all_companies, acc.successful_scrapes, acc.failed_scrapes + 1,
                   Append(acc.errors, Msg("Exception processing URL", url)))
    ELSE IF result.kind # "triple"      \* unpacking fails, caught at 453
    THEN Aggregate(acc.all_companies, acc.successful_scrapes, acc.failed_scrapes + 1,
                   Append(acc.errors, Msg("Error processing result for URL", url)))
    ELSE IF result.success
    THEN Aggregate(acc.all_companies \o result.companies, acc.successful_scrapes + 1,
                   acc.failed_scrapes, acc.errors)
    ELSE Aggregate(acc.all_companies, acc.successful_scrapes, acc.failed_scrapes + 1,
                   IF result.error_message # <<>>
                   THEN Append(acc.errors, result.error_message) ELSE acc.errors)

\* AggregateFrom leaving the loop at the first unit that did not succeed
RECURSIVE AggregateFromBreak(_, _, _, _)
AggregateFromBreak(acc, res, lim, i) ==
    IF i > Len(res) THEN acc
    ELSE IF res[i].kind = "triple" /\ res[i].success
    THEN AggregateFromBreak(AggregateOne(acc, res[i], lim[i]), res, lim, i + 1)
    ELSE AggregateOne(acc, res[i], lim[i])

\* scraper.py:429-458 over results[from..]
RECURSIVE AggregateFrom(_, _, _, _)
AggregateFrom(acc, res, lim, i) ==
    IF i > Len(res) THEN acc
    ELSE AggregateFrom(AggregateOne(acc, res[i], lim[i]), res, lim, i + 1)

AggregateResults(res, lim) == AggregateFrom(Aggregate(<<>>, 0, 0, <<>>), res, lim, 1)

\* what gather hands back for a task
ResultOf(task) == IF task.st = "settled" THEN task.result ELSE [kind |-> "pending"]

\* results handed back in the order the units finished (asyncio.as_completed)
GatherResultsAsCompleted(ts, done_order) ==
    IF Len(done_order) = Len(ts)
    THEN [k \in 1..Len(ts) |-> ResultOf(ts[done_order[k]])]
    ELSE [i \in 1..Len(ts) |-> ResultOf(ts[i])]

\* results = await asyncio.gather(*tasks, return_exceptions=True): one result
\* per awaitable, in the order of the awaitables, whatever the order
\* done_order in which they finished
GatherResults(ts, done_order) == [i \in 1..Len(ts) |-> ResultOf(ts[i])]

\* FallbackNeeded without the "not all_companies" test
FallbackWheneverResults(companies, res) == res # <<>>

\* if not all_companies and lead_discovery_result.results:
FallbackNeeded(companies, res) == companies = <<>> /\ res # <<>>

---------------------------------------------------------------------------
(* run_enhanced_company_scraper_agent as a state machine *)

EmptyRun(msg) == ScrapingResult(<<>>, 0, 0, 0, <<msg>>)

\* a harness that is not in use
IdleDedup == dd_in = <<>> /\ dd_out = <<>> /\ dd_pc = 0

IdleClassify == cl_in = NoPage /\ cl_out = ""

IdleExtract == ex_in = NoPage /\ ex_out = NoResult

IdleDb == db_reqs = <<>> /\ db_locks = <<>> /\ db_loop = 0

IdleDiscover ==
    dl_pc = "idle" /\ dl_iteration = 0 /\ dl_expired = FALSE /\ dl_resp = NoResult

NoOp == [op |-> "none"]

IdleStore ==
    /\ st_leads = <<>>
    /\ st_profiles = 0
    /\ st_clock = 0
    /\ st_op = NoOp
    /\ st_deleted = {}

IdleSectors == sc_sectors = <<>> /\ sc_reqs = <<>> /\ sc_loop = 0

IdleAgent ==
    /\ ag_pc = "idle"
    /\ ag_iteration = 0
    /\ ag_invocations = 0
    /\ ag_calls = <<>>
    /\ ag_next = 0
    /\ ag_replies = <<>>
    /\ ag_ret = NoResult

IdleApp == IdleStore /\ IdleSectors /\ IdleAgent

\* the pipeline when a harness runs instead of it
IdleScraper ==
    /\ urls = <<>>
    /\ results = <<>>
    /\ pc = "idle"
    /\ limited_urls = <<>>
    /\ tasks = <<>>
    /\ all_companies = <<>>
    /\ successful_scrapes = 0
    /\ failed_scrapes = 0
    /\ errors = <<>>
    /\ ret = NoResult
    /\ fallback_calls = <<>>
    /\ scraped = <<>>
    /\ track = FALSE
    /\ order = <<>>

InitWith(input, tracking) ==
    /\ urls = input.urls
    /\ results = input.results
    /\ pc = "start"
    /\ limited_urls = <<>>
    /\ tasks = <<>>
    /\ all_companies = <<>>
    /\ successful_scrapes = 0
    /\ failed_scrapes = 0
    /\ errors = <<>>
    /\ ret = NoResult
    /\ fallback_calls = <<>>
    /\ scraped = <<>>
    /\ track = tracking
    /\ order = <<>>
    /\ IdleDedup
    /\ IdleClassify
    /\ IdleExtract
    /\ IdleDb
    /\ IdleDiscover
    /\ IdleApp

Init == \E input \in Inputs : InitWith(input, FALSE)

\* scraper.py:305-348 and 424-426: parse and cap the URLs, then either
\* return the empty-input result or create the units and await gather
Start ==
    /\ pc = "start"
    /\ IF urls = NonStr       \* urls.strip() raises, caught at 339
       THEN /\ ret' = EmptyRun(Msg("Error extracting URLs from search results", <<>>))
            /\ pc' = "done"
            /\ UNCHANGED <<limited_urls, tasks>>
       ELSE IF ~Truthy(urls) \/ Strip(urls) = <<>>
       THEN /\ ret' = EmptyRun(Msg("No URLs found in search results", <<>>))
            /\ pc' = "done"
            /\ UNCHANGED <<limited_urls, tasks>>
       ELSE LET limited == LimitUrls(ParseUrlList(urls)) IN
            IF limited = <<>>
            THEN /\ ret' = EmptyRun(Msg("No valid URLs to process", <<>>))
                 /\ pc' = "done"
                 /\ UNCHANGED <<limited_urls, tasks>>
            ELSE /\ limited_urls' = limited
                 /\ tasks' = [i \in 1..Len(limited) |-> Launched]
                 /\ pc' = "gather"
                 /\ UNCHANGED ret
    /\ UNCHANGED <<urls, results, all_companies, successful_scrapes, failed_scrapes,
                   errors, fallback_calls, scraped, track, order>>
    /\ UNCHANGED harnessVars

Settle(i) == order' = IF track THEN Append(order, i) ELSE order

\* a unit runs from its start to the extractor call, or to an early return
UnitFetch(i) ==
    /\ pc = "gather"
    /\ i \in 1..Len(tasks)
    /\ tasks[i].st = "launched"
    /\ \E fetch \in FetchEvents(limited_urls[i]) :
         LET next == AfterFetch(limited_urls[i], fetch) IN
         /\ tasks' = [tasks EXCEPT ![i] = next]
         /\ IF next.st = "settled" THEN Settle(i) ELSE UNCHANGED order
    /\ UNCHANGED <<urls, results, pc, limited_urls, all_companies, successful_scrapes,
                   failed_scrapes, errors, ret, fallback_calls, scraped, track>>
    /\ UNCHANGED harnessVars

\* a unit runs from the extractor call to its return
UnitExtract(i) ==
    /\ pc = "gather"
    /\ i \in 1..Len(tasks)
    /\ tasks[i].st = "extracting"
    /\ \E cap \in ExtractEvents(limited_urls[i]) :
         tasks' = [tasks EXCEPT ![i] = Settled(AfterExtract(limited_urls[i], tasks[i], cap))]
    /\ Settle(i)
    /\ UNCHANGED <<urls, results, pc, limited_urls, all_companies, successful_scrapes,
                   failed_scrapes, errors, ret, fallback_calls, scraped, track>>
    /\ UNCHANGED harnessVars

\* scraper.py:426-458: gather returns and the results are collected
Collect ==
    /\ pc = "gather"
    /\ GatherDone(tasks)
    /\ LET agg == AggregateResults(GatherResults(tasks, order), limited_urls)
       IN /\ all_companies' = agg.all_companies
          /\ successful_scrapes' = agg.successful_scrapes
          /\ failed_scrapes' = agg.failed_scrapes
          /\ errors' = agg.errors
          /\ scraped' = agg.all_companies
    /\ pc' = "fallback"
    /\ UNCHANGED <<urls, results, limited_urls, tasks, ret, fallback_calls, track, order>>
    /\ UNCHANGED harnessVars

\* Fallback counting the URLs as successful once it has made records
FallbackCountsSuccess ==
    /\ pc = "fallback"
    /\ IF FallbackNeeded(all_companies, results)
       THEN /\ fallback_calls' = FallbackInputs(results)
            /\ all_companies' = all_companies \o FallbackCompanies(FallbackInputs(results))
            /\ successful_scrapes' = failed_scrapes
            /\ failed_scrapes' = 0
       ELSE UNCHANGED <<fallback_calls, all_companies, successful_scrapes, failed_scrapes>>
    /\ pc' = "dedup"
    /\ UNCHANGED <<urls, results, limited_urls, tasks, errors, ret, scraped, track, order>>
    /\ UNCHANGED harnessVars

\* scraper.py:460-468
Fallback ==
    /\ pc = "fallback"
    /\ IF FallbackNeeded(all_companies, results)
       THEN /\ fallback_calls' = FallbackInputs(results)
            /\ all_companies' = all_companies \o FallbackCompanies(FallbackInputs(results))
       ELSE UNCHANGED <<fallback_calls, all_companies>>
    /\ pc' = "dedup"
    /\ UNCHANGED <<urls, results, limited_urls, tasks, successful_scrapes, failed_scrapes,
                   errors, ret, scraped, track, order>>
    /\ UNCHANGED harnessVars

\* scraper.py:470-487
Return ==
    /\ pc = "dedup"
    /\ ret' = ScrapingResult(Dedup(all_companies), Len(limited_urls),
                             successful_scrapes, failed_scrapes, errors)
    /\ pc' = "done"
    /\ UNCHANGED <<urls, results, limited_urls, tasks, all_companies, successful_scrapes,
                   failed_scrapes, errors, fallback_calls, scraped, track, order>>
    /\ UNCHANGED harnessVars

Next ==
    \/ Start
    \/ \E i \in 1..UrlCap : UnitFetch(i)
    \/ \E i \in 1..UrlCap : UnitExtract(i)
    \/ Collect
    \/ Fallback
    \/ Return

Spec == Init /\ [][Next]_vars

\* runs of at most MaxOrderUrls URLs in which the completion order is recorded
InitOrder ==
    \E input \in {x \in Inputs : IsStr(x.urls) /\ Len(ParseUrlList(x.urls)) <= MaxOrderUrls} :
        InitWith(input, TRUE)

SpecOrder == InitOrder /\ [][Next]_vars

---------------------------------------------------------------------------
(* The run over units taken as a whole: what gather can hand back for one *)

\* a unit that was cancelled: gather hands back its CancelledError, which
\* is no Exception and no tuple
CancelledResult == [kind |-> "cancelled"]

\* what gather(..., return_exceptions=True) can hold for the unit of url: the
\* triple of a success, the triple of a failure, an exception that left
\* process_single_url (raised in one of its handlers), a CancelledError
UnitOutcomes(url) ==
    {Triple(<<CompanyData(NameAb, None, url, ConfSingle)>>, TRUE, <<>>),
     Triple(<<>>, FALSE, Msg("Failed to fetch content from", url)),
     ExceptionResult,
     CancelledResult}

\* the unit of URL i runs to its end
UnitEnds(i) ==
    /\ pc = "gather"
    /\ i \in 1..Len(tasks)
    /\ tasks[i].st = "launched"
    /\ \E outcome \in UnitOutcomes(limited_urls[i]) :
         tasks' = [tasks EXCEPT ![i] = Settled(outcome)]
    /\ Settle(i)
    /\ UNCHANGED <<urls, results, pc, limited_urls, all_companies, successful_scrapes,
                   failed_scrapes, errors, ret, fallback_calls, scraped, track>>
    /\ UNCHANGED harnessVars

NextOutcomes ==
    \/ Start
    \/ \E i \in 1..UrlCap : UnitEnds(i)
    \/ Collect
    \/ Fallback
    \/ Return

SpecOutcomes == Init /\ [][NextOutcomes]_vars

---------------------------------------------------------------------------
(* The dedup step applied to arbitrary lists, twice in a row *)

DedupRecords ==
    {CompanyData(n, w, UrlStr(1), c) :
        n \in {NameAb, Nameab, NameC}, w \in {None, Website},
        c \in {ConfSingle, ConfAggregator}}

InitDedup ==
    /\ IdleScraper
    /\ dd_in \in SeqsUpTo(DedupRecords, MaxDedupLen)
    /\ dd_out = <<>>
    /\ dd_pc = 0
    /\ IdleClassify
    /\ IdleExtract
    /\ IdleDb
    /\ IdleDiscover
    /\ IdleApp

\* scraper.py:470-477 run on dd_in, then on its own output
DedupApply ==
    /\ pc = "idle"
    /\ dd_pc < 2
    /\ dd_out' = Append(dd_out, Dedup(IF dd_pc = 0 THEN dd_in ELSE dd_out[dd_pc]))
    /\ dd_pc' = dd_pc + 1
    /\ UNCHANGED dd_in
    /\ UNCHANGED <<scraperVars, clVars, exVars, dbVars, dlVars, appVars>>

NextDedup == DedupApply

SpecDedup == InitDedup /\ [][NextDedup]_vars

---------------------------------------------------------------------------
(* detect_page_type applied to markups of every count around the thresholds *)

ClassifyPages ==
    {Page(TRUE, 500, sc, m, c) :
        sc \in 0..MaxScore, m \in 0..MaxMentions, c \in 0..MaxContacts}
    \cup {NonStrPage}

InitClassify ==
    /\ IdleScraper
    /\ IdleDedup
    /\ cl_in \in ClassifyPages
    /\ cl_out = ""
    /\ IdleExtract
    /\ IdleDb
    /\ IdleDiscover
    /\ IdleApp

\* page_type = await detect_page_type(html_content, url)
Classify ==
    /\ pc = "idle"
    /\ cl_in # NoPage
    /\ cl_out = ""
    /\ cl_out' = detect_page_type(cl_in)
    /\ UNCHANGED cl_in
    /\ UNCHANGED <<scraperVars, ddVars, exVars, dbVars, dlVars, appVars>>

NextClassify == Classify

SpecClassify == InitClassify /\ [][NextClassify]_vars

---------------------------------------------------------------------------
(* The two extractors applied to one page and one answer of the capability *)

HarnessEntries ==
    {Entry(NameAb, None), Entry(Nameab, Website), Entry(Missing, None),
     Entry(<<>>, None), Entry(None, None), Entry(NonStr, None), NotADict}

\* an answer of the capability with one object more than its prompt asks for
LongAnswer == [k \in 1..(AggregatorCap + 1) |-> Entry(NameAb, Website)]

\* result.final_output: bare JSON, JSON between code fences with or without
\* text around the fences, text that is no JSON, nothing
HarnessOutputs ==
    {FinalOutput(form, items) :
        form \in {"array", "fenced", "fenced_commentary"},
        items \in SeqsUpTo(HarnessEntries, MaxEntries)}
    \cup {FinalOutput("object", <<>>), FinalOutput("invalid", <<>>),
          FinalOutput("empty", <<>>), FinalOutput("array", LongAnswer)}

HarnessCaps ==
    {[ev |-> "raise"]} \cup {[ev |-> "output", out |-> o] : o \in HarnessOutputs}

ExtractInput(html, url, cap) == [html |-> html, url |-> url, cap |-> cap]

ExtractOutput(done, single, aggregator) ==
    [done |-> done, single |-> single, aggregator |-> aggregator]

InitExtract ==
    /\ IdleScraper
    /\ IdleDedup
    /\ IdleClassify
    /\ ex_in \in {ExtractInput(html, url, cap) :
                     html \in {PlainPage, ShortPage, NonStrPage},
                     url \in {UrlStr(1), UrlStr(2)},
                     cap \in HarnessCaps}
    /\ ex_out = ExtractOutput({}, <<>>, <<>>)
    /\ IdleDb
    /\ IdleDiscover
    /\ IdleApp

\* companies = await scrape_single_company_page(html_content, url)
ScrapeSingle ==
    /\ pc = "idle"
    /\ ex_in # NoPage
    /\ "single" \notin ex_out.done
    /\ ex_out' = [ex_out EXCEPT
                    !.done = @ \cup {"single"},
                    !.single = scrape_single_company_page(ex_in.html, ex_in.url, ex_in.cap)]
    /\ UNCHANGED ex_in
    /\ UNCHANGED <<scraperVars, ddVars, clVars, dbVars, dlVars, appVars>>

\* companies = await scrape_aggregator_page(html_content, url)
ScrapeAggregator ==
    /\ pc = "idle"
    /\ ex_in # NoPage
    /\ "aggregator" \notin ex_out.done
    /\ ex_out' = [ex_out EXCEPT
                    !.done = @ \cup {"aggregator"},
                    !.aggregator = scrape_aggregator_page(ex_in.html, ex_in.url, ex_in.cap)]
    /\ UNCHANGED ex_in
    /\ UNCHANGED <<scraperVars, ddVars, clVars, dbVars, dlVars, appVars>>

NextExtract == ScrapeSingle \/ ScrapeAggregator

SpecExtract == InitExtract /\ [][NextExtract]_vars

---------------------------------------------------------------------------
(* The API server's handlers on the database (api/server.py, agents/database.py) *)

\* The steps of a handler, in order.  "await" is an await that suspends the
\* coroutine; "open"/"close" enter and leave "with DatabaseManager() as db";
\* "select" and "fetch" are a read method (cursor and execute, then fetch);
\* "acquire" .. "release" are a write method: with _connection_lock, cursor,
\* execute, commit, end of the with; the "_inner" steps are the
\* check_lead_saved coroutine that save_lead awaits inside its own block.
Program(handler) ==
    CASE handler = "identify_sectors" ->
            <<"await", "open", "select", "fetch",
              "acquire", "cursor", "execute", "commit", "release",
              "select", "fetch", "close">>
      [] handler = "get_saved_leads" ->
            <<"open", "select", "fetch", "close">>
      [] handler = "save_lead" ->
            <<"open", "select", "fetch",
              "open_inner", "select_inner", "fetch_inner", "close_inner",
              "acquire", "cursor", "execute", "commit", "release",
              "select", "fetch", "close">>
      [] handler = "delete_lead" ->
            <<"open", "select", "fetch",
              "acquire", "cursor", "execute", "commit", "release", "close">>

Handlers == {"identify_sectors", "get_saved_leads", "save_lead", "delete_lead"}

\* a request: its handler, the index of its next step, the DatabaseManager
\* it constructed (0: none yet), the one check_lead_saved constructed, the
\* step it took last and whether it has created the cursor of a write
Request(handler, ip, mgr, inner, last, wrote) ==
    [handler |-> handler, ip |-> ip, mgr |-> mgr, inner |-> inner,
     last |-> last, wrote |-> wrote]

\* every step suspends: handlers run as preemptible threads
SuspendsAlways(step) == TRUE

\* the steps at which the coroutine hands the event loop back: the await of
\* the sector agent; "await check_lead_saved(...)" runs the callee inline
Suspends(step) == step = "await"

NextStep(r) == Program(db_reqs[r].handler)[db_reqs[r].ip]

Finished(r) == db_reqs[r].ip > Len(Program(db_reqs[r].handler))

\* the event loop runs one coroutine until it suspends or returns
Runnable(r) ==
    /\ pc = "server"
    /\ r \in 1..Len(db_reqs)
    /\ ~Finished(r)
    /\ db_loop \in {0, r}

\* the index of the "close" step, where an HTTPException raised in the
\* block leaves it
CloseIndex(handler) == Len(Program(handler))

\* after a read the handler goes on, or raises (404, 400, 409) or returns
\* early (the sector exists) and leaves its block
AfterStep(r) ==
    IF NextStep(r) \in {"fetch", "close_inner"} /\ db_reqs[r].ip < CloseIndex(db_reqs[r].handler) - 1
    THEN {db_reqs[r].ip + 1, CloseIndex(db_reqs[r].handler)}
    ELSE {db_reqs[r].ip + 1}

Advance(r, to, mgr, inner) ==
    /\ db_reqs' = [db_reqs EXCEPT ![r] =
                      Request(db_reqs[r].handler, to, mgr, inner, NextStep(r),
                              db_reqs[r].wrote \/ NextStep(r) = "cursor")]
    /\ db_loop' = IF Suspends(NextStep(r)) \/ to > Len(Program(db_reqs[r].handler))
                  THEN 0 ELSE r

InitDb ==
    /\ IdleDedup
    /\ IdleClassify
    /\ IdleExtract
    /\ IdleDiscover
    /\ IdleApp
    /\ urls = <<>>
    /\ results = <<>>
    /\ pc = "server"
    /\ limited_urls = <<>>
    /\ tasks = <<>>
    /\ all_companies = <<>>
    /\ successful_scrapes = 0
    /\ failed_scrapes = 0
    /\ errors = <<>>
    /\ ret = NoResult
    /\ fallback_calls = <<>>
    /\ scraped = <<>>
    /\ track = FALSE
    /\ order = <<>>
    /\ db_reqs \in [1..MaxRequests -> {Request(h, 1, 0, 0, "", FALSE) : h \in Handlers}]
    /\ db_locks = <<>>
    /\ db_loop = 0

\* recomended = await sector_identification_agent(...), server.py:102
Await(r) ==
    /\ Runnable(r)
    /\ NextStep(r) = "await"
    /\ Advance(r, db_reqs[r].ip + 1, db_reqs[r].mgr, db_reqs[r].inner)
    /\ UNCHANGED db_locks
    /\ UNCHANGED <<scraperVars, ddVars, clVars, exVars, dlVars, appVars>>

\* with DatabaseManager() as db: a new connection and a new lock
\* (database.py:17-28), in the handler or in check_lead_saved
Open(r) ==
    /\ Runnable(r)
    /\ NextStep(r) \in {"open", "open_inner"}
    /\ db_locks' = Append(db_locks, 0)
    /\ IF NextStep(r) = "open"
       THEN Advance(r, db_reqs[r].ip + 1, Len(db_locks) + 1, db_reqs[r].inner)
       ELSE Advance(r, db_reqs[r].ip + 1, db_reqs[r].mgr, Len(db_locks) + 1)
    /\ UNCHANGED <<scraperVars, ddVars, clVars, exVars, dlVars, appVars>>

\* a read method (get_*, search_leads): no lock is taken
Read(r) ==
    /\ Runnable(r)
    /\ NextStep(r) \in {"select", "fetch", "select_inner", "fetch_inner"}
    /\ \E to \in AfterStep(r) : Advance(r, to, db_reqs[r].mgr, db_reqs[r].inner)
    /\ UNCHANGED db_locks
    /\ UNCHANGED <<scraperVars, ddVars, clVars, exVars, dlVars, appVars>>

\* a write method (add_*, update_*, delete_*), database.py:259-281 and
\* alike: the lock of the manager it was given is held from before the
\* cursor is created until after the commit
Write(r) ==
    /\ Runnable(r)
    /\ NextStep(r) \in {"acquire", "cursor", "execute", "commit", "release"}
    /\ NextStep(r) = "acquire" => db_locks[db_reqs[r].mgr] = 0
    /\ db_locks' = IF NextStep(r) = "acquire"
                   THEN [db_locks EXCEPT ![db_reqs[r].mgr] = r]
                   ELSE IF NextStep(r) = "release"
                   THEN [db_locks EXCEPT ![db_reqs[r].mgr] = 0]
                   ELSE db_locks
    /\ Advance(r, db_reqs[r].ip + 1, db_reqs[r].mgr, db_reqs[r].inner)
    /\ UNCHANGED <<scraperVars, ddVars, clVars, exVars, dlVars, appVars>>

\* DatabaseManager.__exit__: the connection is closed (database.py:96-105)
Close(r) ==
    /\ Runnable(r)
    /\ NextStep(r) \in {"close", "close_inner"}
    /\ \E to \in AfterStep(r) : Advance(r, to, db_reqs[r].mgr, db_reqs[r].inner)
    /\ UNCHANGED db_locks
    /\ UNCHANGED <<scraperVars, ddVars, clVars, exVars, dlVars, appVars>>

NextDb ==
    \/ \E r \in 1..MaxRequests : Await(r)
    \/ \E r \in 1..MaxRequests : Open(r)
    \/ \E r \in 1..MaxRequests : Read(r)
    \/ \E r \in 1..MaxRequests : Write(r)
    \/ \E r \in 1..MaxRequests : Close(r)

SpecDb == InitDb /\ [][NextDb]_vars

---------------------------------------------------------------------------
(* POST /leads/discover (api/server.py) over run_lead_scraping_agent *)

\* the JSON response of the endpoint
Response(status, companies) == [status |-> status, companies |-> companies]

\* the "leads" of the agent's final message, by company name
LeadLists == SeqsUpTo({NameAb, NameC}, MaxLeads)

InitDiscover ==
    /\ IdleScraper
    /\ IdleDedup
    /\ IdleClassify
    /\ IdleExtract
    /\ IdleDb
    /\ IdleApp
    /\ dl_pc = "discovery"
    /\ dl_iteration = 0
    /\ dl_expired = FALSE
    /\ dl_resp = NoResult

\* time goes by while the request is being served; no statement of the
\* handler or of the agents reads the clock
DeadlinePasses ==
    /\ pc = "idle"
    /\ dl_pc \in {"discovery", "scraping"}
    /\ ~dl_expired
    /\ dl_expired' = TRUE
    /\ UNCHANGED <<dl_pc, dl_iteration, dl_resp>>
    /\ UNCHANGED <<scraperVars, ddVars, clVars, exVars, dbVars, appVars>>

\* discovery_output = await lead_discovery_agent(...), server.py:475; what
\* it raises is answered with status 500 (server.py:503-505)
Discovery ==
    /\ pc = "idle"
    /\ dl_pc = "discovery"
    /\ \/ dl_pc' = "scraping" /\ UNCHANGED dl_resp
       \/ dl_pc' = "responded" /\ dl_resp' = Response(500, <<>>)
    /\ UNCHANGED <<dl_iteration, dl_expired>>
    /\ UNCHANGED <<scraperVars, ddVars, clVars, exVars, dbVars, appVars>>

\* one pass of the loop of run_lead_scraping_agent (leadsense.py:175-281):
\* the model asks for tools, or gives its final message (leads, or text
\* that does not parse: no lead), or the API call raises
Iteration ==
    /\ pc = "idle"
    /\ dl_pc = "scraping"
    /\ dl_iteration < max_iterations
    /\ dl_iteration' = dl_iteration + 1
    /\ \/ UNCHANGED <<dl_pc, dl_resp>>
       \/ \E leads \in LeadLists :
             dl_pc' = "responded" /\ dl_resp' = Response(200, leads)
       \/ dl_pc' = "responded" /\ dl_resp' = Response(500, <<>>)
    /\ UNCHANGED dl_expired
    /\ UNCHANGED <<scraperVars, ddVars, clVars, exVars, dbVars, appVars>>

\* leadsense.py:283-290: the loop ran out of iterations, no lead is returned
IterationsExhausted ==
    /\ pc = "idle"
    /\ dl_pc = "scraping"
    /\ dl_iteration >= max_iterations
    /\ dl_pc' = "responded"
    /\ dl_resp' = Response(200, <<>>)
    /\ UNCHANGED <<dl_iteration, dl_expired>>
    /\ UNCHANGED <<scraperVars, ddVars, clVars, exVars, dbVars, appVars>>

NextDiscover == DeadlinePasses \/ Discovery \/ Iteration \/ IterationsExhausted

SpecDiscover == InitDiscover /\ [][NextDiscover]_vars

---------------------------------------------------------------------------
(* The leads table and LeadManager (agents/database.py) *)

StatusNew == <<"n", "e", "w">>
PriorityMedium == <<"m", "e", "d">>
Contacted == <<"c">>
High == <<"h">>
Descr == <<"a", "b", " ", "w">>

\* discovered_by_profile_id: 0 stands for NULL
NoProfile == 0

\* the dict of a lead as add_lead, update_lead and POST /leads/save get it
LeadDict(company_name, website_url, description) ==
    [company_name |-> company_name, website_url |-> website_url,
     description |-> description, automation_proposal |-> None]

NoLead == LeadDict(None, None, None)

\* the row INSERT INTO leads makes, database.py:55-73 and 263-278
LeadRow(lead, profile, now) ==
    [company_name |-> lead.company_name, website_url |-> lead.website_url,
     description |-> lead.description, automation_proposal |-> lead.automation_proposal,
     discovered_by_profile_id |-> profile,
     status |-> StatusNew, priority |-> PriorityMedium, notes |-> None,
     updated_at |-> now, is_active |-> 1]

\* what a write method leaves and returns
Written(leads, returned) == [leads |-> leads, ret |-> returned]

\* WHERE id = ? AND is_active = 1
ActiveLead(t, id) == id \in 1..Len(t) /\ t[id].is_active = 1

ActiveIds(t) == {id \in 1..Len(t) : t[id].is_active = 1}

add_lead(t, lead, profile, now) ==
    Written(Append(t, LeadRow(lead, profile, now)), Len(t) + 1)

update_lead_status(t, id, status, now) ==
    IF ActiveLead(t, id)
    THEN Written([t EXCEPT ![id].status = status, ![id].updated_at = now], TRUE)
    ELSE Written(t, FALSE)

update_lead_priority(t, id, priority, now) ==
    IF ActiveLead(t, id)
    THEN Written([t EXCEPT ![id].priority = priority, ![id].updated_at = now], TRUE)
    ELSE Written(t, FALSE)

update_lead_notes(t, id, notes, now) ==
    IF ActiveLead(t, id)
    THEN Written([t EXCEPT ![id].notes = notes, ![id].updated_at = now], TRUE)
    ELSE Written(t, FALSE)

\* update_lead_fields writing all three columns, None included
update_lead_fields_all(t, id, status, priority, notes, now) ==
    IF ActiveLead(t, id)
    THEN Written([t EXCEPT ![id].status = status, ![id].priority = priority,
                           ![id].notes = notes, ![id].updated_at = now], TRUE)
    ELSE Written(t, FALSE)

update_lead_fields(t, id, status, priority, notes, now) ==
    IF status = None /\ priority = None /\ notes = None
    THEN Written(t, FALSE)                      \* if not update_parts
    ELSE IF ActiveLead(t, id)
    THEN Written([t EXCEPT
                    ![id].status = IF status # None THEN status ELSE @,
                    ![id].priority = IF priority # None THEN priority ELSE @,
                    ![id].notes = IF notes # None THEN notes ELSE @,
                    ![id].updated_at = now], TRUE)
    ELSE Written(t, FALSE)

\* lead_data is a lead dict without the keys status, priority and notes
update_lead(t, id, lead_data, now) ==
    IF ActiveLead(t, id)
    THEN Written([t EXCEPT
                    ![id].company_name = lead_data.company_name,
                    ![id].website_url = lead_data.website_url,
                    ![id].description = lead_data.description,
                    ![id].automation_proposal = lead_data.automation_proposal,
                    ![id].status = StatusNew,
                    ![id].priority = PriorityMedium,
                    ![id].notes = None,
                    ![id].updated_at = now], TRUE)
    ELSE Written(t, FALSE)

\* delete_lead giving the row back to the readers when called on a deleted row
delete_lead_toggle(t, id, now) ==
    IF id \in 1..Len(t)
    THEN Written([t EXCEPT ![id].is_active = 1 - @, ![id].updated_at = now], TRUE)
    ELSE Written(t, FALSE)

\* WHERE id = ?, with no test of is_active
delete_lead(t, id, now) ==
    IF id \in 1..Len(t)
    THEN Written([t EXCEPT ![id].is_active = 0, ![id].updated_at = now], TRUE)
    ELSE Written(t, FALSE)

\* the read methods; a list of rows is given as the set of its ids
get_lead_by_id(t, id) == IF ActiveLead(t, id) THEN t[id] ELSE NoResult

get_all_leads(t) == ActiveIds(t)

get_leads_by_profile(t, profile) ==
    {id \in ActiveIds(t) : profile # NoProfile /\ t[id].discovered_by_profile_id = profile}

get_leads_by_status(t, status) == {id \in ActiveIds(t) : t[id].status = status}

Contains(hay, needle) ==
    \E k \in 0..(Len(hay) - Len(needle)) : SubSeq(hay, k + 1, k + Len(needle)) = needle

\* column LIKE '%term%': no match on NULL, letters compared without case
Like(column, term) == column # None /\ Contains(Lower(column), Lower(term))

search_leads(t, search_term) ==
    {id \in ActiveIds(t) :
        \/ Like(t[id].company_name, search_term)
        \/ Like(t[id].description, search_term)
        \/ Like(t[id].automation_proposal, search_term)}

\* every row of the model was discovered within the last 30 days
get_lead_stats(t) ==
    [total_leads |-> Cardinality(ActiveIds(t)),
     status_counts |-> [s \in {t[id].status : id \in ActiveIds(t)} |->
                           Cardinality({id \in ActiveIds(t) : t[id].status = s})],
     priority_counts |-> [p \in {t[id].priority : id \in ActiveIds(t)} |->
                             Cardinality({id \in ActiveIds(t) : t[id].priority = p})],
     recent_leads |-> Cardinality(ActiveIds(t))]

\* the last call: method, lead id, arguments, returned value
Op(op, id, returned, status, priority, notes, lead) ==
    [op |-> op, id |-> id, ret |-> returned, status |-> status,
     priority |-> priority, notes |-> notes, lead |-> lead]

StoreLeads == {LeadDict(NameAb, Website, None), LeadDict(Nameab, None, Descr)}

\* ids given to the methods: those of the rows and one that no row has
Ids == 1..(MaxRows + 1)

InitStore ==
    /\ IdleScraper
    /\ IdleDedup
    /\ IdleClassify
    /\ IdleExtract
    /\ IdleDb
    /\ IdleDiscover
    /\ IdleSectors
    /\ IdleAgent
    /\ st_leads = <<>>
    /\ st_profiles = 1
    /\ st_clock = 0
    /\ st_op = NoOp
    /\ st_deleted = {}

otherVars == <<scraperVars, ddVars, clVars, exVars, dbVars, dlVars, scVars, agVars>>

\* the write is committed and the call returns
Commit(w, op) ==
    /\ st_leads' = w.leads
    /\ st_op' = op
    /\ UNCHANGED <<st_profiles, st_clock>>
    /\ UNCHANGED otherVars

\* a second passes
Tick ==
    /\ pc = "idle"
    /\ st_clock < MaxTicks
    /\ st_clock' = st_clock + 1
    /\ UNCHANGED <<st_leads, st_profiles, st_op, st_deleted>>
    /\ UNCHANGED otherVars

AddLead ==
    /\ pc = "idle"
    /\ Len(st_leads) < MaxRows
    /\ \E lead \in StoreLeads, profile \in {1} :
         LET w == add_lead(st_leads, lead, profile, st_clock)
         IN Commit(w, Op("add_lead", w.ret, w.ret, None, None, None, lead))
    /\ UNCHANGED st_deleted

UpdateLeadStatus ==
    /\ pc = "idle"
    /\ \E id \in Ids, status \in {Contacted} :
         LET w == update_lead_status(st_leads, id, status, st_clock)
         IN Commit(w, Op("update_lead_status", id, w.ret, status, None, None, NoLead))
    /\ UNCHANGED st_deleted

UpdateLeadPriority ==
    /\ pc = "idle"
    /\ \E id \in Ids, priority \in {High} :
         LET w == update_lead_priority(st_leads, id, priority, st_clock)
         IN Commit(w, Op("update_lead_priority", id, w.ret, None, priority, None, NoLead))
    /\ UNCHANGED st_deleted

UpdateLeadNotes ==
    /\ pc = "idle"
    /\ \E id \in Ids, notes \in {<<>>} :
         LET w == update_lead_notes(st_leads, id, notes, st_clock)
         IN Commit(w, Op("update_lead_notes", id, w.ret, None, None, notes, NoLead))
    /\ UNCHANGED st_deleted

UpdateLeadFields ==
    /\ pc = "idle"
    /\ \E id \in Ids, status \in {None, Contacted}, priority \in {None, High},
          notes \in {None, <<>>} :
         LET w == update_lead_fields(st_leads, id, status, priority, notes, st_clock)
         IN Commit(w, Op("update_lead_fields", id, w.ret, status, priority, notes, NoLead))
    /\ UNCHANGED st_deleted

UpdateLead ==
    /\ pc = "idle"
    /\ \E id \in Ids, lead_data \in StoreLeads :
         LET w == update_lead(st_leads, id, lead_data, st_clock)
         IN Commit(w, Op("update_lead", id, w.ret, None, None, None, lead_data))
    /\ UNCHANGED st_deleted

DeleteLead ==
    /\ pc = "idle"
    /\ \E id \in Ids :
         LET w == delete_lead(st_leads, id, st_clock)
         IN /\ Commit(w, Op("delete_lead", id, w.ret, None, None, None, NoLead))
            /\ st_deleted' = IF w.ret THEN st_deleted \cup {id} ELSE st_deleted

NextStore ==
    \/ Tick
    \/ AddLead
    \/ UpdateLeadStatus
    \/ UpdateLeadPriority
    \/ UpdateLeadNotes
    \/ UpdateLeadFields
    \/ UpdateLead
    \/ DeleteLead

SpecStore == InitStore /\ [][NextStore]_vars

---------------------------------------------------------------------------
(* POST /sectors/identify and get_or_create_sector *)

SectorRow(name) == [name |-> name, is_active |-> 1]

\* a request: the names the sector agent recommends, the name the loop is
\* at, the statement it runs next, the ids of the sectors it got, and
\* whether an INSERT raised
SectorRequest(names, at, step, ids, raised) ==
    [names |-> names, at |-> at, step |-> step, ids |-> ids, raised |-> raised]

\* SELECT * FROM sectors WHERE name = ? AND is_active = 1: the ids found
get_sector_by_name(t, name) ==
    {id \in 1..Len(t) : t[id].name = name /\ t[id].is_active = 1}

\* name TEXT UNIQUE NOT NULL
NameTaken(t, name) == \E id \in 1..Len(t) : t[id].name = name

SectorNames == {<<"A">>, <<"B">>}

InitSectors ==
    /\ IdleScraper
    /\ IdleDedup
    /\ IdleClassify
    /\ IdleExtract
    /\ IdleDb
    /\ IdleDiscover
    /\ IdleStore
    /\ IdleAgent
    /\ sc_sectors = <<>>
    /\ sc_reqs \in [1..MaxRequests ->
                      {SectorRequest(names, 1, "await", <<>>, FALSE) :
                          names \in SeqsUpTo(SectorNames, MaxSectors)}]
    /\ sc_loop = 0

\* the event loop runs one coroutine until it suspends or returns
SectorRunnable(r) ==
    /\ pc = "idle"
    /\ r \in 1..Len(sc_reqs)
    /\ sc_reqs[r].step # "done"
    /\ sc_loop \in {0, r}

\* the request goes on with the statement given, or has returned
SectorAdvance(r, at, step, ids, raised) ==
    LET ended == raised \/ at > Len(sc_reqs[r].names)
    IN /\ sc_reqs' = [sc_reqs EXCEPT ![r] =
                        SectorRequest(sc_reqs[r].names, at,
                                      IF ended THEN "done" ELSE step, ids, raised)]
       /\ sc_loop' = IF Suspends(sc_reqs[r].step) \/ ended THEN 0 ELSE r

\* recomended = await sector_identification_agent(...), server.py:102
SectorAwait(r) ==
    /\ SectorRunnable(r)
    /\ sc_reqs[r].step = "await"
    /\ SectorAdvance(r, 1, "select", <<>>, FALSE)
    /\ UNCHANGED sc_sectors
    /\ UNCHANGED <<scraperVars, ddVars, clVars, exVars, dbVars, dlVars, stVars, agVars>>

\* sector = sector_manager.get_sector_by_name(name); if sector: return sector
SectorSelect(r) ==
    /\ SectorRunnable(r)
    /\ sc_reqs[r].step = "select"
    /\ LET q == sc_reqs[r]
           found == get_sector_by_name(sc_sectors, q.names[q.at])
       IN IF found # {}
          THEN \E id \in found : SectorAdvance(r, q.at + 1, "select", Append(q.ids, id), FALSE)
          ELSE SectorAdvance(r, q.at, "insert", q.ids, FALSE)
    /\ UNCHANGED sc_sectors
    /\ UNCHANGED <<scraperVars, ddVars, clVars, exVars, dbVars, dlVars, stVars, agVars>>

\* sector_id = sector_manager.add_sector(...); return get_sector_by_id(sector_id).
\* An INSERT of a name the table holds raises sqlite3.IntegrityError, which
\* the handler turns into a 500 (server.py:124-125)
SectorInsert(r) ==
    /\ SectorRunnable(r)
    /\ sc_reqs[r].step = "insert"
    /\ LET q == sc_reqs[r]
       IN IF NameTaken(sc_sectors, q.names[q.at])
          THEN /\ SectorAdvance(r, q.at, "done", q.ids, TRUE)
               /\ UNCHANGED sc_sectors
          ELSE /\ sc_sectors' = Append(sc_sectors, SectorRow(q.names[q.at]))
               /\ SectorAdvance(r, q.at + 1, "select",
                                Append(q.ids, Len(sc_sectors) + 1), FALSE)
    /\ UNCHANGED <<scraperVars, ddVars, clVars, exVars, dbVars, dlVars, stVars, agVars>>

NextSectors ==
    \/ \E r \in 1..MaxRequests : SectorAwait(r)
    \/ \E r \in 1..MaxRequests : SectorSelect(r)
    \/ \E r \in 1..MaxRequests : SectorInsert(r)

SpecSectors == InitSectors /\ [][NextSectors]_vars

---------------------------------------------------------------------------
(* run_lead_scraping_agent, the tool loop (agents/leadsense.py:170-290) *)

\* LeadScrapingResults: the leads, total_found
LeadScrapingResults(leads, total_found) == [leads |-> leads, total_found |-> total_found]

\* what a tool call of a response can be: a tool that answers, a name that
\* is not in tool_map, a tool that raises an Exception, a synchronous tool
\* (the await raises TypeError and the tool is called again without await),
\* and a call that raises out of the loop (arguments that are no JSON, a
\* TypeError raised again by the second call, a response json.dumps rejects)
ToolCallKinds == {"answers", "unknown", "fails", "sync", "raises"}

\* response_message.content of a response without tool calls: JSON with
\* leads, text without braces, braces around text that is no JSON
Contents == {"leads", "text", "malformed"}

\* the while loop going on for ever
LoopGoesOnUnbounded(iteration) == TRUE

\* while iteration < max_iterations
LoopGoesOn(iteration) == iteration < max_iterations

InitAgent ==
    /\ IdleScraper
    /\ IdleDedup
    /\ IdleClassify
    /\ IdleExtract
    /\ IdleDb
    /\ IdleDiscover
    /\ IdleStore
    /\ IdleSectors
    /\ ag_pc = "loop"
    /\ ag_iteration = 0
    /\ ag_invocations = 0
    /\ ag_calls = <<>>
    /\ ag_next = 0
    /\ ag_replies = <<>>
    /\ ag_ret = NoResult

agentFrame == <<scraperVars, ddVars, clVars, exVars, dbVars, dlVars, stVars, scVars>>

\* one pass of the loop head: the model is invoked; the call raises, or the
\* response has no tool call and the function returns, or it has some
Invoke ==
    /\ ag_pc = "loop"
    /\ LoopGoesOn(ag_iteration)
    /\ ag_iteration' = ag_iteration + 1
    /\ ag_invocations' = ag_invocations + 1
    /\ ag_replies' = <<>>
    /\ \/ /\ ag_pc' = "raised"
          /\ ag_calls' = <<>>
          /\ ag_next' = 0
          /\ ag_ret' = NoResult
       \/ \E content \in Contents :
            /\ ag_pc' = "returned"
            /\ ag_calls' = <<>>
            /\ ag_next' = 0
            /\ ag_ret' = IF content = "leads"
                          THEN LeadScrapingResults(<<NameAb>>, 1)
                          ELSE LeadScrapingResults(<<>>, 0)
       \/ \E calls \in SeqsUpTo(ToolCallKinds, MaxToolCalls) \ {<<>>} :
            /\ ag_pc' = "tools"
            /\ ag_calls' = calls
            /\ ag_next' = 1
            /\ ag_ret' = NoResult
    /\ UNCHANGED agentFrame

\* one pass of "for tool_call in response_message.tool_calls"
HandleToolCall ==
    /\ ag_pc = "tools"
    /\ ag_next <= Len(ag_calls)
    /\ IF ag_calls[ag_next] = "raises"
       THEN /\ ag_pc' = "raised"
            /\ UNCHANGED <<ag_next, ag_replies>>
       ELSE /\ ag_replies' = Append(ag_replies, ag_next)
            /\ ag_next' = ag_next + 1
            /\ ag_pc' = IF ag_next = Len(ag_calls) THEN "loop" ELSE "tools"
    /\ UNCHANGED <<ag_iteration, ag_invocations, ag_calls, ag_ret>>
    /\ UNCHANGED agentFrame

\* the loop ends with iteration = max_iterations: empty results
MaxIterationsReached ==
    /\ ag_pc = "loop"
    /\ ~LoopGoesOn(ag_iteration)
    /\ ag_pc' = "returned"
    /\ ag_ret' = LeadScrapingResults(<<>>, 0)
    /\ UNCHANGED <<ag_iteration, ag_invocations, ag_calls, ag_next, ag_replies>>
    /\ UNCHANGED agentFrame

NextAgent ==
    \/ Invoke
    \/ HandleToolCall
    \/ MaxIterationsReached

\* every awaited call (the model, a tool) returns or raises
SpecAgent == InitAgent /\ [][NextAgent]_vars /\ WF_vars(NextAgent)

---------------------------------------------------------------------------
(* POST /leads/save (api/server.py:322-373) *)

\* GET /leads/check-saved, called by save_lead as a function: is_saved
check_lead_saved(t, company_name, website_url) ==
    LET search_term == IF Truthy(website_url)
                       THEN company_name \o <<" ">> \o website_url
                       ELSE company_name
    IN \E id \in search_leads(t, search_term) :
          /\ Lower(t[id].company_name) = Lower(company_name)
          /\ (~Truthy(website_url) \/ t[id].website_url = website_url)

\* payload.lead
SavedLeads ==
    {LeadDict(name, url, descr) :
        name \in {NameAb, Nameab}, url \in {None, Website}, descr \in {None, Descr}}

InitSave ==
    /\ IdleScraper
    /\ IdleDedup
    /\ IdleClassify
    /\ IdleExtract
    /\ IdleDb
    /\ IdleDiscover
    /\ IdleSectors
    /\ IdleAgent
    /\ st_leads = <<>>
    /\ st_profiles \in {0, 1}
    /\ st_clock = 0
    /\ st_op = NoOp
    /\ st_deleted = {}

\* the handler from the request to the response: 400 without a company
\* profile, 409 when check_lead_saved finds the lead, otherwise the row is
\* inserted and read back
SaveLead ==
    /\ pc = "idle"
    /\ Len(st_leads) < MaxRows
    /\ \E lead \in SavedLeads :
         IF st_profiles = 0
         THEN Commit(Written(st_leads, 0),
                     Op("save_lead", 0, 400, None, None, None, lead))
         ELSE IF check_lead_saved(st_leads, lead.company_name, lead.website_url)
         THEN Commit(Written(st_leads, 0),
                     Op("save_lead", 0, 409, None, None, None, lead))
         ELSE LET w == add_lead(st_leads, lead, 1, st_clock)
              IN Commit(w, Op("save_lead", w.ret,
                              IF get_lead_by_id(w.leads, w.ret) # NoResult THEN 200 ELSE 500,
                              None, None, None, lead))
    /\ UNCHANGED st_deleted

NextSave ==
    \/ SaveLead
    \/ DeleteLead

SpecSave == InitSave /\ [][NextSave]_vars

---------------------------------------------------------------------------
(* Vocabulary of the properties *)

Blank(seg) == \A j \in 1..Len(seg) : seg[j] = " "

\* the segments of the URL string that hold a URL, by position
UrlSegments(str) == {i \in 1..Len(Split(str, ",")) : ~Blank(Split(str, ",")[i])}

\* N: the number of non-empty URLs the string parses to
UrlCount(str) == Cardinality(UrlSegments(str))

\* the string has no URL at all: empty, blank, or blanks between commas
BlankInput(str) == str = None \/ (IsStr(str) /\ \A j \in 1..Len(str) : str[j] \in {" ", ","})

Past(positions) == pc \in positions

UnitsRan == Past({"fallback", "dedup", "done"}) /\ tasks # <<>>

SettledAt(i) == tasks[i].st = "settled"

Succeeded(i) == SettledAt(i) /\ tasks[i].result.kind = "triple" /\ tasks[i].result.success

Failed(i) == SettledAt(i) /\ ~Succeeded(i)

UnitIds == 1..Len(tasks)

\* the URL an error message was written for
ErrorUrl(e) == IF e[1] = "No companies extracted from" THEN e[2][1] ELSE e[2]

IsScrapingResult(r) ==
    DOMAIN r = {"companies", "total_urls_processed", "successful_scrapes",
                "failed_scrapes", "errors"}

KeyOf(c) == <<Lower(c.company_name), c.website_url>>

\* the positions of a list whose key no earlier position has
FirstOccurrences(list) ==
    {p \in 1..Len(list) : \A q \in 1..(p - 1) : KeyOf(list[q]) # KeyOf(list[p])}

\* list is sub taken at the increasing positions pos
IsSelection(list, sub, pos) ==
    /\ Len(sub) = Cardinality(pos)
    /\ \A k \in 1..Len(sub) :
         \E p \in pos : /\ Cardinality({q \in pos : q < p}) = k - 1
                        /\ sub[k] = list[p]

\* the companies of the successful units, the units taken in the order ids
RECURSIVE CompaniesInOrder(_)
CompaniesInOrder(ids) ==
    IF ids = <<>> THEN <<>>
    ELSE (IF Succeeded(Head(ids)) THEN tasks[Head(ids)].result.companies ELSE <<>>)
         \o CompaniesInOrder(Tail(ids))

InputOrder == [i \in 1..Len(tasks) |-> i]

\* the units that did not succeed, in the order of their URLs
FailedIds == SelectSeq(InputOrder, LAMBDA i : ~Succeeded(i))

\* errors holds one message per failed unit, in the order of the URLs
OneErrorPerFailure(errs) ==
    /\ Len(errs) = Len(FailedIds)
    /\ \A k \in 1..Len(errs) : ErrorUrl(errs[k]) = limited_urls[FailedIds[k]]

---------------------------------------------------------------------------
(* Properties *)

\* C1: a URL string that parses to N non-empty URLs starts a unit for exactly
\* its first min(N, 5) URLs, in their order, and the result reports
\* total_urls_processed = min(N, 5); no failure count and no error message
\* belongs to a URL beyond the fifth.
C1_UrlCap ==
    (IsStr(urls) /\ pc # "start") =>
        LET segs == Split(urls, ",")
            holds == {p \in 1..Len(segs) : ~Blank(segs[p])}
            n == Cardinality(holds)
            capped == Min(n, UrlCap)
        IN /\ Len(tasks) = capped
           /\ Len(limited_urls) = capped
           /\ \A i \in 1..capped :
                \E p \in holds :
                    /\ Cardinality({q \in holds : q < p}) = i - 1
                    /\ limited_urls[i] = Strip(segs[p])
           /\ pc = "done" =>
                /\ ret.total_urls_processed = capped
                /\ ret.failed_scrapes <= capped
                /\ \A k \in 1..Len(ret.errors) :
                     n > 0 => \E i \in 1..capped : ErrorUrl(ret.errors[k]) = limited_urls[i]

C1_Witness ==
    /\ pc = "done"
    /\ IsStr(urls)
    /\ UrlCount(urls) > UrlCap
    /\ ret.total_urls_processed = UrlCap
    /\ ret.failed_scrapes >= 1

\* C2: a URL string that is empty, blank, or holds only blank segments between
\* commas makes the run return at once: no unit is started, the metadata
\* fallback is not invoked, and the result has zero counts, no company and a
\* non-empty errors list.
C2_EmptyInput ==
    (BlankInput(urls) /\ pc # "start") =>
        /\ pc = "done"
        /\ tasks = <<>>
        /\ fallback_calls = <<>>
        /\ IsScrapingResult(ret)
        /\ ret.total_urls_processed = 0
        /\ ret.successful_scrapes = 0
        /\ ret.failed_scrapes = 0
        /\ ret.companies = <<>>
        /\ ret.errors # <<>>

C2_Witness ==
    /\ pc = "done"
    /\ BlankInput(urls)
    /\ urls # None
    /\ \E j \in 1..Len(urls) : urls[j] = ","
    /\ results # <<>>
    /\ ret.errors # <<>>

\* C3: whatever the units' outcomes, the run ends with a ScrapingResult and
\* without an exception, and the failure of one unit keeps no successful
\* unit's records out of the aggregate.
C3_NoAbort ==
    /\ pc = "done" => IsScrapingResult(ret)
    /\ \A i \in UnitIds : SettledAt(i) => tasks[i].result.kind \in {"triple", "exception"}
    /\ UnitsRan =>
         /\ successful_scrapes = Cardinality({i \in UnitIds : Succeeded(i)})
         /\ \A i \in UnitIds : Succeeded(i) =>
              \A k \in 1..Len(tasks[i].result.companies) :
                  \E j \in 1..Len(scraped) : scraped[j] = tasks[i].result.companies[k]
    /\ (pc = "done" /\ tasks # <<>>) =>
         \A i \in UnitIds : Succeeded(i) =>
              \A k \in 1..Len(tasks[i].result.companies) :
                  \E j \in 1..Len(ret.companies) :
                      KeyOf(ret.companies[j]) = KeyOf(tasks[i].result.companies[k])

C3_Witness ==
    /\ pc = "done"
    /\ Len(tasks) >= 3
    /\ Failed(1)
    /\ Succeeded(2)
    /\ Failed(3)
    /\ ret.companies # <<>>
    /\ ret.successful_scrapes = 1

\* C4: a settled unit holds a triple (companies, success, error_message) and
\* never an exception: success with companies and an empty message, or
\* failure with no company and a non-empty message.
C4_UnitTriple ==
    \A i \in UnitIds : SettledAt(i) =>
        LET r == tasks[i].result IN
        /\ r.kind = "triple"
        /\ \/ r.success /\ r.companies # <<>> /\ r.error_message = <<>>
           \/ ~r.success /\ r.companies = <<>> /\ r.error_message # <<>>

C4_Witness ==
    /\ Len(tasks) >= 2
    /\ Succeeded(1)
    /\ Failed(2)
    /\ tasks[2].result.error_message[1] = "MCP server error for"

\* C5: all capped units are created together; while gather is awaited the
\* aggregate state is untouched, and it is filled only once every unit has
\* settled, a failed unit leaving the others running to their end.
C5_AggregateAfterAll ==
    /\ pc = "gather" =>
         /\ Len(tasks) = Len(limited_urls)
         /\ all_companies = <<>>
         /\ successful_scrapes = 0
         /\ failed_scrapes = 0
         /\ errors = <<>>
         /\ ret = NoResult
    /\ UnitsRan =>
         /\ Len(tasks) = Len(limited_urls)
         /\ \A i \in UnitIds : SettledAt(i)
         /\ successful_scrapes + failed_scrapes = Len(tasks)

C5_Witness ==
    /\ pc = "fallback"
    /\ Len(tasks) >= 2
    /\ Failed(1)
    /\ Succeeded(2)
    /\ all_companies # <<>>

\* C6: the metadata fallback is invoked exactly when the units have run, none
\* of them produced a company and there is a search result; a run with a
\* successful unit never calls it and returns no record of confidence 0.3 or 0.1.
C6_FallbackOnlyWhenEmpty ==
    Past({"dedup", "done"}) =>
        /\ fallback_calls # <<>> <=>
             (/\ tasks # <<>>
              /\ \A i \in UnitIds : ~Succeeded(i)
              /\ results # <<>>)
        /\ successful_scrapes >= 1 =>
             /\ fallback_calls = <<>>
             /\ \A k \in 1..Len(all_companies) :
                  all_companies[k].confidence_score \notin {ConfMetadata, ConfDegenerate}
             /\ pc = "done" =>
                  \A k \in 1..Len(ret.companies) :
                      ret.companies[k].confidence_score \notin {ConfMetadata, ConfDegenerate}

C6_Witness ==
    /\ pc = "done"
    /\ results # <<>>
    /\ ret.successful_scrapes >= 1
    /\ ret.failed_scrapes >= 1
    /\ fallback_calls = <<>>

\* C7: a fallback over R search results is applied to exactly the first
\* min(R, 3) of them, in their order, and returns at most 3 companies, each
\* made from one of those results.
C7_FallbackCap ==
    (Past({"dedup", "done"}) /\ fallback_calls # <<>>) =>
        /\ Len(fallback_calls) = Min(Len(results), FallbackCap)
        /\ \A k \in 1..Len(fallback_calls) : fallback_calls[k] = results[k]
        /\ Len(all_companies) <= FallbackCap
        /\ \A k \in 1..Len(all_companies) :
             \E j \in 1..Min(Len(results), FallbackCap) :
                 all_companies[k].source_url = results[j].URL
        /\ pc = "done" => Len(ret.companies) <= FallbackCap

C7_Witness ==
    /\ pc = "done"
    /\ Len(results) > FallbackCap
    /\ fallback_calls # <<>>
    /\ Len(all_companies) = FallbackCap

\* C8: no two companies of a returned result have the same key (name in lower
\* case, website_url), None being a website_url like any other, and
\* deduplication returns no more records than were aggregated.
C8_UniqueKeys ==
    pc = "done" =>
        /\ \A i, j \in 1..Len(ret.companies) :
             i # j => <<Lower(ret.companies[i].company_name), ret.companies[i].website_url>>
                      # <<Lower(ret.companies[j].company_name), ret.companies[j].website_url>>
        /\ Len(ret.companies) <= Len(all_companies)

C8_Witness ==
    /\ pc = "done"
    /\ Len(ret.companies) < Len(all_companies)
    /\ \E i, j \in 1..Len(all_companies) :
         /\ i < j
         /\ all_companies[i].company_name # all_companies[j].company_name
         /\ Lower(all_companies[i].company_name) = Lower(all_companies[j].company_name)
         /\ all_companies[i].website_url = None
         /\ all_companies[j].website_url = None

\* C9: the dedup step applied to its own output returns that output unchanged.
C9_DedupIdempotent == dd_pc = 2 => dd_out[2] = dd_out[1]

C9_Witness ==
    /\ dd_pc = 2
    /\ Len(dd_out[1]) < Len(dd_in)
    /\ Len(dd_out[1]) >= 2

\* C10 as claimed: of the records with one key the run keeps the one of the
\* unit that completed first, the kept records standing in the order in
\* which their units completed.
C10_FirstCompletedKept ==
    (pc = "done" /\ tasks # <<>> /\ fallback_calls = <<>>) =>
        IsSelection(CompaniesInOrder(order), ret.companies,
                    FirstOccurrences(CompaniesInOrder(order)))

\* C10 amended: of the records with one key the run keeps the one of the unit
\* whose URL stands first in the capped URL list, whichever unit completed
\* first, and the kept records stand in the order of their URLs in that list.
C10_FirstListedKept ==
    (pc = "done" /\ tasks # <<>> /\ fallback_calls = <<>>) =>
        IsSelection(CompaniesInOrder(InputOrder), ret.companies,
                    FirstOccurrences(CompaniesInOrder(InputOrder)))

C10_Witness ==
    /\ pc = "done"
    /\ Len(tasks) >= 2
    /\ order # <<>>
    /\ order[1] = 2
    /\ Succeeded(1)
    /\ Succeeded(2)
    /\ tasks[1].result.companies[1] # tasks[2].result.companies[1]
    /\ KeyOf(tasks[1].result.companies[1]) = KeyOf(tasks[2].result.companies[1])
    /\ ret.companies[1] = tasks[1].result.companies[1]

\* the confidence score of the extractor that belongs to a classifier label
ConfidenceOf(label) == IF label = "single_company" THEN ConfSingle ELSE ConfAggregator

\* the records of a returned result that came out of the metadata fallback
\* carry the score of the path that made them: 0.3 where the search result
\* was read without an error, 0.1 where reading it raised
FallbackProvenance ==
    (pc = "done" /\ fallback_calls # <<>>) =>
        \A k \in 1..Len(ret.companies) :
            \E j \in 1..Len(fallback_calls) :
                /\ ret.companies[k].source_url = fallback_calls[j].URL
                /\ ret.companies[k].confidence_score =
                       IF IsStr(fallback_calls[j].Title) THEN ConfMetadata ELSE ConfDegenerate

\* the records of a returned result that came out of the units are records
\* of successful units, and carry 0.8 or 0.6
UnitProvenance ==
    (pc = "done" /\ tasks # <<>> /\ fallback_calls = <<>>) =>
        \A k \in 1..Len(ret.companies) :
            /\ ret.companies[k].confidence_score \in {ConfSingle, ConfAggregator}
            /\ \E i \in UnitIds :
                 /\ Succeeded(i)
                 /\ \E m \in 1..Len(tasks[i].result.companies) :
                      tasks[i].result.companies[m] = ret.companies[k]

\* a unit that ends after its extractor ran: the label it holds is the
\* classifier's for its page, and its records carry the score of the
\* extractor of that label
ExtractorMatchesLabel ==
    \A i \in 1..Len(tasks) :
        (tasks[i].st = "extracting" /\ tasks'[i].st = "settled") =>
            /\ tasks[i].page_type = detect_page_type(tasks[i].html)
            /\ tasks'[i].result.kind = "triple" =>
                 \A k \in 1..Len(tasks'[i].result.companies) :
                     /\ tasks'[i].result.companies[k].confidence_score
                            = ConfidenceOf(tasks[i].page_type)
                     /\ tasks'[i].result.companies[k].source_url = limited_urls[i]

\* C11: every company of a returned result carries the confidence score of
\* the path that produced it and no other value: 0.8 from the
\* single-company extractor, 0.6 from the aggregator extractor, 0.3 from a
\* successful metadata fallback, 0.1 from the degenerate one; and the
\* extractor run for a URL is the one of the label the classifier gave its page.
C11_ConfidenceByProvenance ==
    /\ [](FallbackProvenance /\ UnitProvenance)
    /\ [][ExtractorMatchesLabel]_vars

C11_Witness ==
    /\ pc = "done"
    /\ Len(tasks) >= 2
    /\ Succeeded(1)
    /\ Succeeded(2)
    /\ \E k \in 1..Len(ret.companies) : ret.companies[k].confidence_score = ConfSingle
    /\ \E k \in 1..Len(ret.companies) : ret.companies[k].confidence_score = ConfAggregator

\* the unit of URL i handed back at least one company
Yielded(i) ==
    /\ SettledAt(i)
    /\ tasks[i].result.kind = "triple"
    /\ tasks[i].result.companies # <<>>

\* the run of the scenario: three URLs, no search result, one unit with one
\* record of the single-company extractor, one unit whose MCP block raised
\* (a timeout), one unit whose aggregator extractor returned no company
ThreeUrlScenario ==
    /\ pc = "done"
    /\ Len(tasks) = 3
    /\ results = <<>>
    /\ \E a, b, c \in UnitIds :
         /\ {a, b, c} = UnitIds
         /\ Yielded(a)
         /\ Len(tasks[a].result.companies) = 1
         /\ tasks[a].result.companies[1].confidence_score = ConfSingle
         /\ Failed(b)
         /\ tasks[b].result.error_message[1] = "MCP server error for"
         /\ Failed(c)
         /\ tasks[c].result.error_message
              = Msg("No companies extracted from", <<limited_urls[c], "aggregator">>)

\* C12: in a run over a non-empty capped URL list successful_scrapes is the
\* number of units that yielded at least one company and failed_scrapes the
\* number of units that yielded none; the aggregate holds the records of the
\* successful units and no other; three URLs of which one yields one
\* single-company record, one times out and one yields [] on an aggregator
\* page, with no search result, give 1 success, 2 failures, 1 company and
\* 2 error messages.
C12_Counts ==
    /\ UnitsRan =>
         /\ successful_scrapes = Cardinality({i \in UnitIds : Yielded(i)})
         /\ failed_scrapes = Cardinality({i \in UnitIds : ~Yielded(i)})
         /\ scraped = CompaniesInOrder(InputOrder)
         /\ \A i \in UnitIds : Yielded(i) <=> Succeeded(i)
    /\ (pc = "done" /\ tasks # <<>>) =>
         /\ ret.successful_scrapes = Cardinality({i \in UnitIds : Yielded(i)})
         /\ ret.failed_scrapes = Cardinality({i \in UnitIds : ~Yielded(i)})
         /\ fallback_calls = <<>> =>
              \A k \in 1..Len(ret.companies) :
                  \E i \in UnitIds :
                      /\ Yielded(i)
                      /\ \E m \in 1..Len(tasks[i].result.companies) :
                           tasks[i].result.companies[m] = ret.companies[k]
    /\ ThreeUrlScenario =>
         /\ ret.successful_scrapes = 1
         /\ ret.failed_scrapes = 2
         /\ Len(ret.companies) = 1
         /\ Len(ret.errors) = 2

C12_Witness ==
    /\ ThreeUrlScenario
    /\ ret.total_urls_processed = 3
    /\ ret.companies[1].source_url = limited_urls[3]

\* the classifier harness has labelled a markup that is a string
Classified == cl_out # "" /\ cl_in.is_str

\* C13: detect_page_type answers 'aggregator' exactly when the markup has at
\* least 2 directory patterns, or more than 10 organization-noun mentions, or
\* more than 5 contact tokens, and 'single_company' otherwise; each condition
\* alone suffices, and 1 pattern with 10 mentions and 5 contact tokens is
\* 'single_company'.
C13_Thresholds ==
    Classified =>
        /\ cl_out \in {"aggregator", "single_company"}
        /\ cl_out = "aggregator" <=>
             \/ cl_in.aggregator_score >= 2
             \/ cl_in.company_mentions > 10
             \/ cl_in.contact_sections > 5
        /\ cl_in.aggregator_score >= 2 => cl_out = "aggregator"
        /\ cl_in.company_mentions > 10 => cl_out = "aggregator"
        /\ cl_in.contact_sections > 5 => cl_out = "aggregator"
        /\ (cl_in.aggregator_score = 1 /\ cl_in.company_mentions = 10
              /\ cl_in.contact_sections = 5) => cl_out = "single_company"

C13_Witness ==
    /\ Classified
    /\ cl_in.aggregator_score = 1
    /\ cl_in.company_mentions = 11
    /\ cl_in.contact_sections = 5
    /\ cl_out = "aggregator"

\* C14 as claimed: a markup with none of the directory patterns and fewer
\* than 10 organization-noun mentions is labelled 'single_company'.
C14_NoPatternFewMentions ==
    (Classified /\ cl_in.aggregator_score = 0 /\ cl_in.company_mentions < 10) =>
        cl_out = "single_company"

\* C14 amended: a markup with none of the directory patterns, fewer than 10
\* organization-noun mentions and at most 5 contact tokens is labelled
\* 'single_company'.
C14_NoPatternFewMentionsFewContacts ==
    (Classified /\ cl_in.aggregator_score = 0 /\ cl_in.company_mentions < 10
        /\ cl_in.contact_sections <= 5) =>
        cl_out = "single_company"

C14_Witness ==
    /\ Classified
    /\ cl_in.aggregator_score = 0
    /\ cl_in.company_mentions = 9
    /\ cl_in.contact_sections = 5
    /\ cl_out = "single_company"

\* C15: every company of a returned result has a non-empty company_name,
\* whichever path produced it and whatever the extraction capability
\* answered for the name (absent, null, empty string).
C15_NonEmptyNames ==
    pc = "done" =>
        \A k \in 1..Len(ret.companies) :
            /\ IsStr(ret.companies[k].company_name)
            /\ ret.companies[k].company_name # <<>>

\* the extractor harness has run the named extractor
Ran(extractor) == ex_in # NoPage /\ extractor \in ex_out.done

\* the capability answered a JSON array of the given form for a page the
\* extractors accept
AnsweredArray(forms) ==
    /\ ex_in.html.is_str
    /\ ex_in.html.size >= 100
    /\ ex_in.cap.ev = "output"
    /\ ex_in.cap.out.form \in forms

\* C16: the single-company extractor returns at most one record per page,
\* exactly one whenever it succeeds, however many objects the answer holds.
C16_SingleRecord ==
    Ran("single") =>
        /\ Len(ex_out.single) <= 1
        /\ ex_out.single # <<>> => Len(ex_out.single) = 1

\* the harness input with the code fences taken off the capability's answer
Unfenced(cap) == [ev |-> "output", out |-> extract_json_string(cap.out)]

\* C17: when the capability's answer is a valid JSON array between code
\* fences, with or without text around the fences, each extractor returns
\* the records it returns for the bare array; the fences alone never empty
\* the result.
C17_FencesTolerated ==
    AnsweredArray({"fenced", "fenced_commentary"}) =>
        /\ Ran("single") =>
             ex_out.single
                = scrape_single_company_page(ex_in.html, ex_in.url, Unfenced(ex_in.cap))
        /\ Ran("aggregator") =>
             ex_out.aggregator
                = scrape_aggregator_page(ex_in.html, ex_in.url, Unfenced(ex_in.cap))

\* the entries of an answer the aggregator extractor keeps: objects whose
\* company_name is there and not empty
KeptEntries(items) ==
    {p \in 1..Len(items) :
        /\ items[p].kind = "dict"
        /\ items[p].company_name \notin {Missing, None, <<>>}}

\* no entry of the answer has a company_name that is not a string
NamesAreStrings(items) ==
    \A p \in 1..Len(items) : items[p].kind = "dict" => items[p].company_name # NonStr

\* C18: every record scrape_aggregator_page returns for the page at URL U has
\* a non-empty company_name and source_url = U; an entry of the answer that
\* is no object, or whose company_name is missing or empty, gives no record
\* and keeps no other entry of the same answer from being returned.
C18_AggregatorRecords ==
    Ran("aggregator") =>
        /\ \A k \in 1..Len(ex_out.aggregator) :
             /\ IsStr(ex_out.aggregator[k].company_name)
             /\ ex_out.aggregator[k].company_name # <<>>
             /\ ex_out.aggregator[k].source_url = ex_in.url
        /\ AnsweredArray({"array"}) =>
             LET items == ex_in.cap.out.items
                 kept == KeptEntries(items)
             IN /\ Len(ex_out.aggregator) <= Cardinality(kept)
                /\ NamesAreStrings(items) =>
                     /\ Len(ex_out.aggregator) = Cardinality(kept)
                     /\ \A k \in 1..Len(ex_out.aggregator) :
                          \E p \in kept :
                              /\ Cardinality({q \in kept : q < p}) = k - 1
                              /\ ex_out.aggregator[k].company_name = items[p].company_name
                              /\ ex_out.aggregator[k].website_url
                                    = Get(items[p].website_url, None)

C18_Witness ==
    /\ Ran("aggregator")
    /\ AnsweredArray({"array"})
    /\ Len(ex_in.cap.out.items) = 3
    /\ ex_in.cap.out.items[1] = Entry(<<>>, None)
    /\ ex_in.cap.out.items[2] = Entry(NameAb, None)
    /\ ex_in.cap.out.items[3] = NotADict
    /\ Len(ex_out.aggregator) = 1
    /\ ex_out.aggregator[1].source_url = UrlStr(2)

\* the step request r took last
LastStep(r) == db_reqs[r].last

Requests == 1..Len(db_reqs)

\* r is in a write between the creation of the cursor and the commit
InWrite(r) == LastStep(r) \in {"cursor", "execute"}

\* r has started a write and has not left it
WriteStarted(r) == LastStep(r) \in {"acquire", "cursor", "execute", "commit"}

\* r is in a read between the creation of the cursor and the fetch
InRead(r) == LastStep(r) \in {"select", "select_inner"}

\* r has written, or is writing, through the DatabaseManager it constructed
HasWritten(r) == db_reqs[r].wrote

NoTwoWrites == \A r1, r2 \in Requests : (InWrite(r1) /\ InWrite(r2)) => r1 = r2

ReadsTakeNoLock ==
    \A r \in Requests : InRead(r) => \A m \in 1..Len(db_locks) : db_locks[m] # r

\* C19 as claimed: no two writes are between cursor creation and commit at
\* the same time, the writes of concurrently handled API requests included,
\* all of them going through one shared connection guarded by one lock, and
\* a read never holds the lock.
C19_OneSharedConnection ==
    /\ NoTwoWrites
    /\ \A r1, r2 \in Requests :
         (HasWritten(r1) /\ HasWritten(r2)) => db_reqs[r1].mgr = db_reqs[r2].mgr
    /\ ReadsTakeNoLock

\* C19 amended: a write holds the lock of the DatabaseManager it was given
\* from before the cursor is created until after the commit, and a read
\* never holds a lock; every API request constructs a DatabaseManager of its
\* own (check_lead_saved inside save_lead one more), so no connection and no
\* lock is shared between requests; the writes of concurrently handled
\* requests still never overlap, no handler suspending inside a write.
C19_LockPerManager ==
    /\ NoTwoWrites
    /\ ReadsTakeNoLock
    /\ \A r \in Requests :
         /\ WriteStarted(r) => db_locks[db_reqs[r].mgr] = r
         /\ ~WriteStarted(r) => \A m \in 1..Len(db_locks) : db_locks[m] # r
         /\ db_reqs[r].inner # 0 => db_reqs[r].inner # db_reqs[r].mgr
    /\ \A r1, r2 \in Requests :
         (r1 # r2 /\ db_reqs[r1].mgr # 0) =>
             db_reqs[r1].mgr \notin {db_reqs[r2].mgr, db_reqs[r2].inner}

C19_Witness ==
    /\ Len(db_reqs) >= 3
    /\ db_reqs[1].handler = "identify_sectors"
    /\ LastStep(1) = "await"
    /\ db_reqs[2].handler = "save_lead"
    /\ InWrite(2)
    /\ db_reqs[2].inner # 0
    /\ db_reqs[3].handler = "delete_lead"
    /\ Finished(3)
    /\ HasWritten(3)
    /\ db_reqs[3].mgr # db_reqs[2].mgr

\* C20: POST /leads/discover wraps the batch in an overall deadline; when the
\* deadline passes before the batch has finished, the work done so far is
\* discarded and the response is an empty company list with a success
\* status, neither partial or late results nor an error status.
C20_DegradeToEmpty ==
    (dl_pc = "responded" /\ dl_expired) =>
        /\ dl_resp.status = 200
        /\ dl_resp.companies = <<>>

\* C21: in every returned ScrapingResult, whatever the path (empty input, all
\* units failed, some failed, fallback applied, a unit whose result is an
\* exception object), successful_scrapes + failed_scrapes is
\* total_urls_processed: each capped URL is counted once, in one counter.
C21_CountsAddUp ==
    /\ pc = "done" =>
         /\ ret.successful_scrapes + ret.failed_scrapes = ret.total_urls_processed
         /\ ret.total_urls_processed = Len(limited_urls)
         /\ ret.successful_scrapes = Cardinality({i \in UnitIds : Succeeded(i)})
         /\ ret.failed_scrapes = Cardinality({i \in UnitIds : ~Succeeded(i)})
    /\ UnitsRan => successful_scrapes + failed_scrapes = Len(limited_urls)

C21_Witness ==
    /\ pc = "done"
    /\ Len(tasks) >= 3
    /\ tasks[1].result.kind = "exception"
    /\ tasks[2].result.kind = "cancelled"
    /\ Succeeded(3)
    /\ ret.failed_scrapes = Len(tasks) - 1

\* C22: in a run over a non-empty capped URL list, errors holds one entry
\* for every failed unit and none for a successful one, so that its length
\* is failed_scrapes; the metadata fallback step adds no entry to errors.
C22_OneErrorPerFailedUnit ==
    /\ [](UnitsRan =>
            /\ Len(errors) = failed_scrapes
            /\ OneErrorPerFailure(errors)
            /\ pc = "done" =>
                 /\ ret.errors = errors
                 /\ Len(ret.errors) = ret.failed_scrapes)
    /\ [][pc = "fallback" => errors' = errors]_vars

C22_Witness ==
    /\ pc = "done"
    /\ Len(tasks) >= 3
    /\ Succeeded(1)
    /\ Failed(2)
    /\ Failed(3)
    /\ fallback_calls = <<>>
    /\ Len(ret.errors) = 2
    /\ ErrorUrl(ret.errors[1]) = limited_urls[2]

\* a run whose fallback made records out of the search results and which
\* returns the errors of its failed units
C22_WitnessFallback ==
    /\ pc = "done"
    /\ fallback_calls # <<>>
    /\ ret.companies # <<>>
    /\ Len(ret.errors) = Len(tasks)

\* the message the aggregation loop keeps for a unit that did not succeed
ErrorOf(i) ==
    IF tasks[i].result.kind = "triple" THEN tasks[i].result.error_message
    ELSE IF tasks[i].result.kind = "exception"
    THEN Msg("Exception processing URL", limited_urls[i])
    ELSE Msg("Error processing result for URL", limited_urls[i])

\* the result as a function of the outcome of each URL's unit, the search
\* results and the capped URL list alone: the order in which the units
\* completed is no argument of it
ResultFromOutcomes ==
    LET scr == CompaniesInOrder(InputOrder)
        all == IF FallbackNeeded(scr, results)
               THEN FallbackCompanies(FallbackInputs(results)) ELSE scr
    IN ScrapingResult(Dedup(all), Len(limited_urls),
                      Cardinality({i \in UnitIds : Succeeded(i)}),
                      Cardinality({i \in UnitIds : ~Succeeded(i)}),
                      [k \in 1..Len(FailedIds) |-> ErrorOf(FailedIds[k])])

\* C23: the returned result does not depend on the order in which the
\* concurrent units completed: it is determined by the outcome of each
\* URL's unit, so that two runs with the same outcomes per URL return the
\* same companies (records, order, duplicate retained) and the same errors,
\* both in the order of the URLs in the input list.
C23_OrderIndependent ==
    (pc = "done" /\ tasks # <<>>) => ret = ResultFromOutcomes

C23_Witness ==
    /\ pc = "done"
    /\ Len(tasks) = 3
    /\ order = <<3, 2, 1>>
    /\ Succeeded(1)
    /\ Failed(2)
    /\ Succeeded(3)
    /\ tasks[1].result.companies[1] # tasks[3].result.companies[1]
    /\ KeyOf(tasks[1].result.companies[1]) = KeyOf(tasks[3].result.companies[1])
    /\ Len(ret.companies) = 1
    /\ ret.companies[1] = tasks[1].result.companies[1]
    /\ Len(ret.errors) = 1

\* the fallback made at least one record
FallbackProduced == fallback_calls # <<>> /\ all_companies # <<>>

\* C24: the metadata fallback changes the companies list and nothing else:
\* a run whose fallback made records returns successful_scrapes = 0,
\* failed_scrapes = total_urls_processed, the errors that stood before the
\* fallback step, and a non-empty companies list; and a returned result
\* with successful_scrapes > 0 always has a company.
C24_FallbackFrame ==
    /\ []((pc = "done" /\ tasks # <<>>) =>
            /\ FallbackProduced =>
                 /\ ret.successful_scrapes = 0
                 /\ ret.failed_scrapes = ret.total_urls_processed
                 /\ ret.errors = errors
                 /\ ret.companies # <<>>
            /\ ret.successful_scrapes > 0 => ret.companies # <<>>)
    /\ [][pc = "fallback" =>
            /\ successful_scrapes' = successful_scrapes
            /\ failed_scrapes' = failed_scrapes
            /\ errors' = errors
            /\ limited_urls' = limited_urls
            /\ ret' = ret]_vars

\* companies non-empty and successful_scrapes = 0
C24_Witness ==
    /\ pc = "done"
    /\ FallbackProduced
    /\ ret.companies # <<>>
    /\ ret.successful_scrapes = 0
    /\ ret.failed_scrapes = ret.total_urls_processed
    /\ ret.failed_scrapes >= 2
    /\ Len(ret.errors) = ret.failed_scrapes

\* C25: the aggregator extractor returns at most 10 records for a page,
\* however many objects the extraction capability puts in its array.
C25_AtMostTenRecords ==
    Ran("aggregator") => Len(ex_out.aggregator) <= AggregatorCap

\* the step is a call of the given LeadManager methods
Called(methods) == st_clock' = st_clock /\ st_op'.op \in methods

PatchColumns == {"status", "priority", "notes", "updated_at"}

\* the value a patched column has after the call: the argument where one
\* was passed, the old value where None was
Patched(old, arg) == IF arg # None THEN arg ELSE old

\* C26: update_lead_fields on an active lead changes the columns among
\* status, priority and notes whose argument is not None, and updated_at,
\* and no other column and no other row; with all three arguments None it
\* returns False and changes nothing; for a missing or soft-deleted lead it
\* returns False and changes nothing.
C26_PatchFrame ==
    [][Called({"update_lead_fields"}) =>
        LET call == st_op'
            id == call.id
        IN IF call.status = None /\ call.priority = None /\ call.notes = None
           THEN call.ret = FALSE /\ st_leads' = st_leads
           ELSE IF ~(id \in 1..Len(st_leads)) \/ st_leads[id].is_active = 0
           THEN call.ret = FALSE /\ st_leads' = st_leads
           ELSE /\ call.ret = TRUE
                /\ Len(st_leads') = Len(st_leads)
                /\ \A j \in 1..Len(st_leads) : j # id => st_leads'[j] = st_leads[j]
                /\ \A c \in DOMAIN st_leads[id] \ PatchColumns :
                     st_leads'[id][c] = st_leads[id][c]
                /\ st_leads'[id].status = Patched(st_leads[id].status, call.status)
                /\ st_leads'[id].priority = Patched(st_leads[id].priority, call.priority)
                /\ st_leads'[id].notes = Patched(st_leads[id].notes, call.notes)
                /\ st_leads'[id].updated_at = st_clock]_vars

C26_Witness ==
    /\ st_op.op = "update_lead_fields"
    /\ st_op.ret = TRUE
    /\ st_op.id = 2
    /\ st_op.status = Contacted
    /\ st_op.priority = None
    /\ st_op.notes = <<>>
    /\ Len(st_leads) = 2
    /\ st_leads[2].status = Contacted
    /\ st_leads[2].priority = High
    /\ st_leads[2].notes = <<>>
    /\ st_leads[2].updated_at = 1
    /\ st_leads[1].updated_at = 0
    /\ st_leads[1].is_active = 0

\* update_lead_fields called with no field, and for a deleted lead
C26_WitnessRefused ==
    /\ st_op.op = "update_lead_fields"
    /\ st_op.ret = FALSE
    /\ st_op.id = 1
    /\ st_op.priority = High
    /\ 1 \in st_deleted
    /\ st_leads[1].priority = PriorityMedium

UpdateMethods ==
    {"update_lead_status", "update_lead_priority", "update_lead_notes",
     "update_lead_fields", "update_lead"}

SearchTerms == {<<>>, NameAb, <<"b">>, <<"w">>, Descr}

\* the ids of the rows for which no delete_lead returned True
Kept == (1..Len(st_leads)) \ st_deleted

\* C27: once delete_lead(id) has returned True, in every later state
\* get_lead_by_id(id) is None, no get_all_leads, get_leads_by_status,
\* get_leads_by_profile or search_leads result holds the lead,
\* get_lead_stats does not count it, every update_lead* call on id returns
\* False and leaves the row as it was, and the row is still in the table
\* with is_active = 0.
C27_SoftDeletePermanent ==
    /\ [](\A id \in st_deleted :
            /\ id \in 1..Len(st_leads)
            /\ st_leads[id].is_active = 0
            /\ get_lead_by_id(st_leads, id) = NoResult
            /\ id \notin get_all_leads(st_leads)
            /\ \A status \in {StatusNew, Contacted} :
                 id \notin get_leads_by_status(st_leads, status)
            /\ \A profile \in 0..2 : id \notin get_leads_by_profile(st_leads, profile)
            /\ \A term \in SearchTerms : id \notin search_leads(st_leads, term)
            /\ LET stats == get_lead_stats(st_leads) IN
               /\ stats.total_leads = Cardinality(Kept)
               /\ stats.recent_leads = Cardinality(Kept)
               /\ \A s \in DOMAIN stats.status_counts :
                    stats.status_counts[s]
                        = Cardinality({j \in Kept : st_leads[j].status = s})
               /\ \A p \in DOMAIN stats.priority_counts :
                    stats.priority_counts[p]
                        = Cardinality({j \in Kept : st_leads[j].priority = p}))
    /\ [][/\ st_deleted \subseteq st_deleted'
          /\ \A id \in st_deleted :
               /\ st_leads'[id].is_active = 0
               /\ (Called(UpdateMethods) /\ st_op'.id = id) =>
                    st_op'.ret = FALSE /\ st_leads' = st_leads
               /\ \A c \in DOMAIN st_leads[id] \ {"updated_at"} :
                    st_leads'[id][c] = st_leads[id][c]]_vars

C27_Witness ==
    /\ st_deleted = {1}
    /\ Len(st_leads) = 2
    /\ st_leads[2].is_active = 1
    /\ st_leads[1].status = Contacted
    /\ st_leads[1].updated_at = 0
    /\ st_clock = 1
    /\ st_op.op = "update_lead"
    /\ st_op.id = 1
    /\ st_op.ret = FALSE
    /\ get_lead_stats(st_leads).total_leads = 1

\* the key of a saved lead
LeadKey(row) == <<Lower(row.company_name), row.website_url>>

NoDuplicateAmong(ids) ==
    \A i, j \in ids : i # j => LeadKey(st_leads[i]) # LeadKey(st_leads[j])

\* C28: POST /leads/save stores no duplicate: after any sequence of
\* save_lead calls no two active leads have the same lower-cased
\* company_name and the same website_url, with a website_url or without.
C28_NoDuplicateSaved == NoDuplicateAmong(ActiveIds(st_leads))

\* the part of C28 that holds: among the active leads saved without a
\* website_url no two have the same lower-cased company_name
C28_NoDuplicateWithoutUrl ==
    NoDuplicateAmong({id \in ActiveIds(st_leads) : st_leads[id].website_url = None})

\* the get_or_create_sector calls that have returned: request and position
SectorCalls == {c \in (1..Len(sc_reqs)) \X (1..MaxSectors) : c[2] <= Len(sc_reqs[c[1]].ids)}

\* C29: get_or_create_sector never fails on a name the table holds: for
\* every sequence of calls, those of concurrently handled requests with
\* their own DatabaseManager included, each call returns the row of its
\* name, all calls for one name return one id, the sectors table holds one
\* row for each name, and no call raises a uniqueness error.
C29_GetOrCreateIdempotent ==
    /\ \A r \in 1..Len(sc_reqs) : ~sc_reqs[r].raised
    /\ \A i, j \in 1..Len(sc_sectors) : i # j => sc_sectors[i].name # sc_sectors[j].name
    /\ \A c \in SectorCalls :
         LET id == sc_reqs[c[1]].ids[c[2]] IN
         /\ id \in 1..Len(sc_sectors)
         /\ sc_sectors[id].name = sc_reqs[c[1]].names[c[2]]
         /\ Cardinality({k \in 1..Len(sc_sectors) :
                            sc_sectors[k].name = sc_reqs[c[1]].names[c[2]]}) = 1
    /\ \A c, d \in SectorCalls :
         sc_reqs[c[1]].names[c[2]] = sc_reqs[d[1]].names[d[2]] =>
             sc_reqs[c[1]].ids[c[2]] = sc_reqs[d[1]].ids[d[2]]
    /\ \A r \in 1..Len(sc_reqs) :
         sc_reqs[r].step = "done" => Len(sc_reqs[r].ids) = Len(sc_reqs[r].names)

\* three requests handled concurrently, all past their await before the
\* first of them reached the table, with names in common
C29_Witness ==
    /\ Len(sc_reqs) >= 3
    /\ sc_reqs[1].names = <<<<"A">>, <<"B">>>>
    /\ sc_reqs[2].names = <<<<"B">>, <<"A">>>>
    /\ sc_reqs[3].names = <<<<"B">>, <<"B">>>>
    /\ sc_reqs[1].step = "done"
    /\ sc_reqs[2].step = "done"
    /\ sc_reqs[3].step = "done"
    /\ sc_reqs[1].ids = <<2, 1>>
    /\ sc_reqs[2].ids = <<1, 2>>
    /\ sc_reqs[3].ids = <<1, 1>>

Ended == ag_pc \in {"returned", "raised"}

====
